---- MODULE Spec2Model ----
(***************************************************************************)
(* Zoho Books API-client layer: the token store accessor                   *)
(* (getValidAccessToken, refreshZohoBooksToken, disconnectZohoBooks,       *)
(* getZohoBooksStatus) and the request dispatcher (zohoBooksApiCall) with  *)
(* the resource accessors that funnel through it.                          *)
(*                                                                         *)
(* Every exported function is async: it runs up to its next await in one   *)
(* step, so each function is one action per await-delimited segment.  Two  *)
(* browser sessions (tabs) of the same user share the integration record.  *)
(*                                                                         *)
(* The detail modals (VendorDetailModal and its siblings) with the tab     *)
(* that mounts them: each event handler is one action, an async handler    *)
(* one action per await-delimited segment.                                 *)
(***************************************************************************)
EXTENDS Integers, Sequences, FiniteSets, TLC

\* ------------------------------------------------------------------ bounds
MaxTime == 2
MaxMint == 2
TokenTTL == 1

\* Two tabs of the same user: tabA calls any exported function, tabB is the tab the
\* user disconnects from.
Sessions == {"tabA", "tabB"}
Callers == {"tabA"}

\* ------------------------------------------------------------------ values
\* JavaScript null for a column or a field, and the empty string.
Null == "null"
Empty == ""
Truthy(v) == v # Null /\ v # Empty

\* A message is a sequence of tokens; W turns words into a message.
W(ws) == [i \in DOMAIN ws |-> <<"word", ws[i]>>]
NoMsg == <<>>
MsgOr(m, default) == IF m # NoMsg THEN m ELSE default

\* Access tokens the refresh procedure hands out, in the order it mints them.
MintedTokens == <<"at1", "at2", "at3", "at4", "at5">>
InitialToken == "at0"
InitialRefreshToken == "rt0"

VARIABLES
  record,     \* the zoho_books_integrations row of the user: <<>> or <<row>>
  now,        \* the wall clock
  minted,     \* how many access tokens the refresh procedure has issued
  pc,         \* per session: the await the running operation is suspended at
  op,         \* per session: the exported function that was called
  snap,       \* per session: what the last select returned
  remote,     \* per session: the refresh procedure's own read of refresh_token
  resp,       \* per session: the {data, error} of the last functions.invoke
  req,        \* per session: the body of the last 'zoho-api-call' invocation
  arg,        \* per session: the arguments the exported function was called with
  result,     \* per session: the settled promise of the operation
  cnt,        \* per session: what the running operation has issued so far
  discSince,  \* per session: a disconnect's update landed since the operation began
  selectedVendor,   \* VendorsTab: <<>> or <<vendor>>
  showDetailModal,  \* VendorsTab: the isOpen of the modal
  isEditing,        \* modal: edit mode
  editData,         \* modal: <<>> (null) or <<the edited fields>>
  isSaving,         \* modal: a save is under way
  viewing,          \* the vendors whose handleViewVendor awaits onView
  deleting,         \* a handleDelete awaits onDelete
  update,           \* the last onUpdate(id, data) call and its state: <<>> or <<call>>
  saved,            \* the promise of the last handleSave
  editedFrom        \* the id of the record handleEdit read editData from: <<>> or <<id>>

clientVars ==
  <<record, now, minted, pc, op, snap, remote, resp, req, arg, result, cnt, discSince>>

modalVars ==
  <<selectedVendor, showDetailModal, isEditing, editData, isSaving, viewing, deleting,
    update, saved, editedFrom>>

vars == <<clientVars, modalVars>>

\* ------------------------------------------------------------------ results
Pending == [kind |-> "pending", val |-> Null, msg |-> NoMsg]
Resolved(v) == [kind |-> "resolved", val |-> v, msg |-> NoMsg]
Rejected(m) == [kind |-> "rejected", val |-> Null, msg |-> m]

NoSnap == [error |-> NoMsg, data |-> <<>>]

IntegrationNotFound == W(<<"No", "Zoho", "Books", "integration", "found">>)
TokenRefreshFailed == W(<<"Token", "refresh", "failed">>)
TransportDown == W(<<"Failed", "to", "send", "a", "request", "to", "the", "Edge", "Function">>)
RefreshDenied == W(<<"invalid_code">>)
RowReadFailed == W(<<"JSON", "object", "requested,", "multiple", "(or", "no)", "rows", "returned">>)

\* ------------------------------------------------------------------ record store
Row(at, rt, exp, conn, disc) ==
  [access_token |-> at, refresh_token |-> rt, token_expires_at |-> exp,
   is_connected |-> conn, organization_id |-> "org1", connected_at |-> 0,
   disconnected_at |-> disc]

NoTime == <<>>

\* What the OAuth exchange (external) and an earlier disconnect leave behind.
InitRecords ==
  {<<>>}
    \cup {<<Row(InitialToken, InitialRefreshToken, 1, TRUE, NoTime)>>}
    \cup {<<Row(Null, Null, 1, FALSE, <<0>>)>>, <<Row(Empty, Null, 1, FALSE, <<0>>)>>}

\* .select(cols).eq('user_id', userId).single(): the row, or an error when there is
\* no row; the request itself may fail.
SelectSingle(rec) ==
  IF rec = <<>>
    THEN {[error |-> RowReadFailed, data |-> <<>>]}
    ELSE {[error |-> NoMsg, data |-> rec], [error |-> TransportDown, data |-> <<>>]}

\* .select('access_token, token_expires_at')
TokenColumns(row) ==
  [access_token |-> row.access_token, token_expires_at |-> row.token_expires_at]

\* integration?.access_token
SnapToken(s) == IF s.data = <<>> THEN Null ELSE s.data[1].access_token

\* Variants of the comparison: reversed, and with a margin before the expiry.
ExpiredReversed(expiresAt, t) == t < expiresAt
ExpiredEarly(expiresAt, t) == expiresAt <= t + 1

\* expiresAt < new Date()
Expired(expiresAt, t) == expiresAt < t

\* ------------------------------------------------------------------ sessions
Idle(s) == pc[s] \in {"idle", "done"}

\* Requests an operation has issued: selects and updates of the record, invocations
\* of 'zoho-token-refresh' and of 'zoho-api-call'.
NoCalls == [read |-> 0, write |-> 0, refresh |-> 0, dispatch |-> 0]

NoRequest == [endpoint |-> <<>>, method |-> "GET", body |-> <<>>]
\* The arguments besides userId and organizationId: none.
NoArgs == <<>>
One(kind) == [NoCalls EXCEPT ![kind] = 1]

\* A call of an exported function, up to its first await: it has issued its first
\* request (a select that answered sn, an update that landed or not, or an
\* invocation with body rq) and is suspended at `at`.
BeginWith(s, name, calls, at, sn, rq, landed, a) ==
  /\ Idle(s)
  /\ arg' = [arg EXCEPT ![s] = a]
  /\ op' = [op EXCEPT ![s] = name]
  /\ result' = [result EXCEPT ![s] = Pending]
  /\ cnt' = [cnt EXCEPT ![s] = calls]
  /\ pc' = [pc EXCEPT ![s] = at]
  /\ snap' = [snap EXCEPT ![s] = sn]
  /\ req' = [req EXCEPT ![s] = rq]
  /\ resp' = [resp EXCEPT ![s] = NoSnap]
  /\ remote' = [remote EXCEPT ![s] = Null]
  /\ discSince' = [o \in Sessions |->
                     IF o = s THEN FALSE ELSE discSince[o] \/ (landed /\ ~Idle(o))]
  /\ UNCHANGED modalVars

Begin(s, name, calls, at, sn, rq, landed) ==
  BeginWith(s, name, calls, at, sn, rq, landed, NoArgs)

\* The operation's promise settles.
Settle(s, r) ==
  /\ result' = [result EXCEPT ![s] = r]
  /\ pc' = [pc EXCEPT ![s] = "done"]

Tick ==
  /\ now < MaxTime
  /\ now' = now + 1
  /\ UNCHANGED <<record, minted, pc, op, snap, remote, resp, req, arg, result, cnt,
                 discSince, modalVars>>

\* ------------------------------------------------------------------ getValidAccessToken
\* Lines 121-126: the select is issued and the function awaits it.
GetValidAccessToken_Select(s) ==
  /\ \E r \in SelectSingle(record) :
       Begin(s, "getValidAccessToken", One("read"), "gvat_selected",
             [error |-> r.error,
              data |-> IF r.data = <<>> THEN <<>> ELSE <<TokenColumns(r.data[1])>>],
             NoRequest, FALSE)
  /\ UNCHANGED <<record, now, minted>>

\* The test without its access_token half.
NotFoundOnErrorOnly(sn) == sn.error # NoMsg

\* Line 128: fetchError || !integration?.access_token
NotFound(sn) == sn.error # NoMsg \/ ~Truthy(SnapToken(sn))

\* Lines 132-133: new Date(integration.token_expires_at) < new Date()
NeedsRefresh(sn, t) == Expired(sn.data[1].token_expires_at, t)

\* The check with an optimistic-concurrency guard: a disconnect that landed since
\* the select makes the snapshot count as gone.
GetValidAccessToken_CheckGuarded(s) ==
  /\ pc[s] = "gvat_selected"
  /\ IF NotFound(snap[s]) \/ discSince[s]
       THEN /\ Settle(s, Rejected(IntegrationNotFound))
            /\ UNCHANGED cnt
       ELSE IF NeedsRefresh(snap[s], now)
         THEN /\ cnt' = [cnt EXCEPT ![s].refresh = @ + 1]
              /\ pc' = [pc EXCEPT ![s] = "refresh_invoked"]
              /\ UNCHANGED result
         ELSE /\ Settle(s, Resolved(SnapToken(snap[s])))
              /\ UNCHANGED cnt
  /\ UNCHANGED <<record, now, minted, op, snap, remote, resp, req, arg, discSince, modalVars>>

\* Lines 128-137, after the select has answered.
GetValidAccessToken_Check(s) ==
  /\ pc[s] = "gvat_selected"
  /\ IF NotFound(snap[s])
       THEN /\ Settle(s, Rejected(IntegrationNotFound))
            /\ UNCHANGED cnt
       ELSE IF NeedsRefresh(snap[s], now)
         THEN \* return refreshZohoBooksToken(userId): runs to its invoke
              /\ cnt' = [cnt EXCEPT ![s].refresh = @ + 1]
              /\ pc' = [pc EXCEPT ![s] = "refresh_invoked"]
              /\ UNCHANGED result
         ELSE /\ Settle(s, Resolved(SnapToken(snap[s])))
              /\ UNCHANGED cnt
  /\ UNCHANGED <<record, now, minted, op, snap, remote, resp, req, arg, discSince, modalVars>>

\* ------------------------------------------------------------------ refreshZohoBooksToken
\* Lines 85-94, called directly: the invoke is issued and awaited.
RefreshZohoBooksToken_Invoke(s) ==
  /\ Begin(s, "refreshZohoBooksToken", One("refresh"), "refresh_invoked", NoSnap, NoRequest, FALSE)
  /\ UNCHANGED <<record, now, minted>>

\* What functions.invoke('zoho-token-refresh') can hand back for a body the
\* procedure produced: {data, error: null}.
Answer(success, token, err) ==
  [error |-> <<>>, data |-> <<[success |-> success, accessToken |-> token, error |-> err]>>]
\* ... and when the invocation itself failed: {data: null, error}.
InvokeFailed == [error |-> <<[message |-> TransportDown]>>, data |-> <<>>]

\* The 'zoho-token-refresh' procedure starts: it reads the stored refresh_token;
\* or the invocation never reaches it.
RemoteRefresh_Read(s) ==
  /\ pc[s] = "refresh_invoked"
  /\ \/ /\ remote' = [remote EXCEPT ![s] =
                       IF record = <<>> THEN Null ELSE record[1].refresh_token]
        /\ pc' = [pc EXCEPT ![s] = "refresh_remote"]
        /\ UNCHANGED resp
     \/ /\ resp' = [resp EXCEPT ![s] = InvokeFailed]
        /\ pc' = [pc EXCEPT ![s] = "refresh_answered"]
        /\ UNCHANGED remote
  /\ UNCHANGED <<record, now, minted, op, snap, req, arg, result, cnt, discSince, modalVars>>

\* The row after the procedure has persisted a new access token: an unconditional
\* update of the two columns.
PersistRefreshed(rec, token, t) ==
  IF rec = <<>> THEN rec
  ELSE <<[rec[1] EXCEPT !.access_token = token, !.token_expires_at = t + TokenTTL]>>

\* The procedure finishes: with a refresh token in hand the upstream exchange may
\* succeed (the new token is persisted and returned) or fail; without one it fails.
\* A malformed body (success without a token, or no body at all) is possible too.
RemoteRefresh_Finish(s) ==
  /\ pc[s] = "refresh_remote"
  /\ \/ /\ Truthy(remote[s])
        /\ minted < MaxMint
        /\ minted' = minted + 1
        /\ record' = PersistRefreshed(record, MintedTokens[minted + 1], now)
        /\ resp' = [resp EXCEPT ![s] = Answer(TRUE, MintedTokens[minted + 1], NoMsg)]
     \/ /\ \E a \in {Answer(FALSE, Null, RefreshDenied), Answer(FALSE, Null, NoMsg),
                     Answer(TRUE, Null, NoMsg), Answer(TRUE, Empty, NoMsg),
                     Answer(FALSE, "atX", RefreshDenied),
                     [error |-> <<>>, data |-> <<>>]} :
             resp' = [resp EXCEPT ![s] = a]
        /\ UNCHANGED <<record, minted>>
  /\ pc' = [pc EXCEPT ![s] = "refresh_answered"]
  /\ UNCHANGED <<now, op, snap, remote, req, arg, result, cnt, discSince, modalVars>>

\* The outcome with line 101 testing success alone.
RefreshOutcomeTrustsSuccess(r) ==
  IF r.error # <<>> THEN Rejected(r.error[1].message)
  ELSE IF r.data = <<>> THEN Rejected(TokenRefreshFailed)
  ELSE IF ~r.data[1].success THEN Rejected(MsgOr(r.data[1].error, TokenRefreshFailed))
  ELSE Resolved(r.data[1].accessToken)

\* Lines 96-107 on the {data, error} of the invoke; the catch of 108-111 rethrows.
RefreshOutcome(r) ==
  IF r.error # <<>> THEN Rejected(r.error[1].message)
  ELSE IF r.data = <<>> THEN Rejected(TokenRefreshFailed)
  ELSE IF ~r.data[1].success \/ ~Truthy(r.data[1].accessToken)
    THEN Rejected(MsgOr(r.data[1].error, TokenRefreshFailed))
  ELSE Resolved(r.data[1].accessToken)

\* The return with the client storing the refreshed token itself.
RefreshZohoBooksToken_ReturnPersisting(s) ==
  /\ pc[s] = "refresh_answered"
  /\ Settle(s, RefreshOutcome(resp[s]))
  /\ IF RefreshOutcome(resp[s]).kind = "resolved"
       THEN /\ record' = PersistRefreshed(record, RefreshOutcome(resp[s]).val, now)
            /\ cnt' = [cnt EXCEPT ![s].write = @ + 1]
       ELSE UNCHANGED <<record, cnt>>
  /\ UNCHANGED <<now, minted, op, snap, remote, resp, req, arg, discSince, modalVars>>

\* Lines 96-111; getValidAccessToken returns this promise as its own (line 134).
RefreshZohoBooksToken_Return(s) ==
  /\ pc[s] = "refresh_answered"
  /\ Settle(s, RefreshOutcome(resp[s]))
  /\ UNCHANGED <<record, now, minted, op, snap, remote, resp, req, arg, cnt, discSince, modalVars>>

\* ------------------------------------------------------------------ disconnectZohoBooks
\* The update without is_connected: false, and without refresh_token: null.
DisconnectedStillConnected(row, t) ==
  [row EXCEPT !.access_token = Null, !.refresh_token = Null, !.disconnected_at = <<t>>]
DisconnectedKeepsRefreshToken(row, t) ==
  [row EXCEPT !.is_connected = FALSE, !.access_token = Null, !.disconnected_at = <<t>>]

\* Lines 1052-1055: the column values of the update.
Disconnected(row, t) ==
  [row EXCEPT !.is_connected = FALSE, !.access_token = Null,
              !.refresh_token = Null, !.disconnected_at = <<t>>]

\* Lines 1049-1057: one update of the rows with this user_id (none: no error); the
\* request itself may fail and then changes nothing.
DisconnectZohoBooks_Update(s) ==
  /\ \/ /\ record' = IF record = <<>> THEN record ELSE <<Disconnected(record[1], now)>>
        /\ Begin(s, "disconnectZohoBooks", One("write"), "disc_updated",
                 [error |-> NoMsg, data |-> <<>>], NoRequest, TRUE)
     \/ /\ Begin(s, "disconnectZohoBooks", One("write"), "disc_updated",
                 [error |-> TransportDown, data |-> <<>>], NoRequest, FALSE)
        /\ UNCHANGED record
  /\ UNCHANGED <<now, minted>>

\* Lines 1059-1060.
DisconnectZohoBooks_Return(s) ==
  /\ pc[s] = "disc_updated"
  /\ Settle(s, IF snap[s].error # NoMsg THEN Rejected(snap[s].error) ELSE Resolved("success"))
  /\ UNCHANGED <<record, now, minted, op, snap, remote, resp, req, arg, cnt, discSince, modalVars>>

\* ------------------------------------------------------------------ getZohoBooksStatus
\* Lines 1068-1072.
GetZohoBooksStatus_Select(s) ==
  /\ \E r \in SelectSingle(record) :
       Begin(s, "getZohoBooksStatus", One("read"), "status_selected", r, NoRequest, FALSE)
  /\ UNCHANGED <<record, now, minted>>

\* Lines 1074-1087: data?.is_connected || false
StatusOf(sn) ==
  IF sn.error # NoMsg \/ sn.data = <<>> THEN "not_connected"
  ELSE IF sn.data[1].is_connected THEN "connected" ELSE "not_connected"

GetZohoBooksStatus_Return(s) ==
  /\ pc[s] = "status_selected"
  /\ Settle(s, Resolved(StatusOf(snap[s])))
  /\ UNCHANGED <<record, now, minted, op, snap, remote, resp, req, arg, cnt, discSince, modalVars>>

\* ------------------------------------------------------------------ zohoBooksApiCall
\* Tokens of a text other than words: JSON punctuation, strings, numbers, literals.
P(c) == <<"punct", c>>
S(v) == <<"str", v>>
N(v) == <<"num", v>>
L(v) == <<"lit", v>>
\* An array value, carried with the text String() gives it: [] is A(""), ["x"] is A("x").
A(v) == <<"arr", v>>

\* needle occurs in text as a contiguous run of tokens
Contains(text, needle) ==
  \E i \in 0..(Len(text) - Len(needle)) :
    \A j \in 1..Len(needle) : text[i + j] = needle[j]

IsValue(tok) == tok[1] \in {"str", "num", "lit", "arr"}

\* The members of a flat JSON object body: key : value, separated by commas. The
\* result is <<ok, pairs>>.
RECURSIVE ParseMembers(_)
ParseMembers(toks) ==
  IF Len(toks) < 3 \/ toks[1][1] # "str" \/ toks[2] # P(":") \/ ~IsValue(toks[3])
    THEN <<FALSE, <<>>>>
  ELSE IF Len(toks) = 3 THEN <<TRUE, <<<<toks[1][2], toks[3]>>>>>>
  ELSE IF toks[4] # P(",") THEN <<FALSE, <<>>>>
  ELSE LET rest == ParseMembers(SubSeq(toks, 5, Len(toks)))
       IN <<rest[1], <<<<toks[1][2], toks[3]>>>> \o rest[2]>>

\* JSON.parse(text): a SyntaxError (ok = FALSE), or the value: an object with its
\* members, or a scalar.
JsonParse(text) ==
  IF Len(text) = 1 /\ IsValue(text[1])
    THEN [ok |-> TRUE, object |-> FALSE, isNull |-> text[1] = L("null"), members |-> <<>>]
  ELSE IF Len(text) = 2 /\ text[1] = P("{") /\ text[2] = P("}")
    THEN [ok |-> TRUE, object |-> TRUE, isNull |-> FALSE, members |-> <<>>]
  ELSE IF Len(text) > 2 /\ text[1] = P("{") /\ text[Len(text)] = P("}")
    THEN LET m == ParseMembers(SubSeq(text, 2, Len(text) - 1))
         IN [ok |-> m[1], object |-> TRUE, isNull |-> FALSE, members |-> m[2]]
  ELSE [ok |-> FALSE, object |-> FALSE, isNull |-> FALSE, members |-> <<>>]

\* value.message of a parsed object: the last member of that name, as a token;
\* <<>> when there is none.
MessageMember(members) ==
  LET at == {i \in DOMAIN members : members[i][1] = "message"}
  IN IF at = {} THEN <<>>
     ELSE <<members[CHOOSE i \in at : \A j \in at : j <= i][2]>>

TruthyValue(tok) ==
  \/ tok[1] = "str" /\ tok[2] # Empty
  \/ tok[1] = "num" /\ tok[2] # "0"
  \/ tok = L("true")
  \/ tok[1] \in {"arr", "obj", "list"}
  \/ tok[1] = "text" /\ tok[2] # <<>>
  \/ tok[1] = "number" /\ tok[2] # 0

\* new Error(v).message: String(v), the empty text for "" and for [].
ErrorText(tok) == IF tok[2] = Empty THEN NoMsg ELSE <<<<"word", tok[2]>>>>

\* The parse looking for an `error` member instead of `message`.
PreferEmbeddedWrongKey(errorMsg) ==
  LET parsed == JsonParse(errorMsg)
      at == {i \in DOMAIN parsed.members : parsed.members[i][1] = "error"}
  IN IF parsed.ok /\ parsed.object /\ at # {}
       THEN ErrorText(parsed.members[CHOOSE i \in at : TRUE][2])
       ELSE errorMsg

\* Lines 190-199: the message embedded in errorMsg when it is JSON text carrying a
\* truthy message; otherwise errorMsg as it is (a SyntaxError, or the TypeError of
\* null.message, is caught and ignored).
PreferEmbedded(errorMsg) ==
  LET parsed == JsonParse(errorMsg)
      m == MessageMember(parsed.members)
  IN IF parsed.ok /\ parsed.object /\ m # <<>> /\ TruthyValue(m[1])
       THEN ErrorText(m[1])
       ELSE errorMsg

ApiCallFailed == W(<<"API", "call", "failed">>)
UnknownError == W(<<"Unknown", "error">>)
PermissionDenied ==
  W(<<"Permission", "denied", ".", "This", "item", "may", "be", "linked", "to", "active",
      "transactions", "and", "cannot", "be", "deleted", ".">>)
ItemNotFound ==
  W(<<"Item", "not", "found", "in", "Zoho", "Books", ".", "It", "may", "have", "already",
      "been", "deleted", ".">>)
InvalidRequest ==
  W(<<"Invalid", "request", ".", "Please", "check", "the", "item", "details", ".">>)
AuthorizationFailed ==
  W(<<"Authorization", "failed", ".", "Please", "reconnect", "to", "Zoho", "Books", ".">>)

DefaultStatus == 500

\* Line 176: data?.status || 500
ErrorStatus(body) ==
  IF body = <<>> \/ body[1].status = <<>> \/ body[1].status = <<0>>
    THEN DefaultStatus ELSE body[1].status[1]

\* Line 175: data?.error || 'API call failed'
RawError(body) == IF body = <<>> THEN ApiCallFailed ELSE MsgOr(body[1].error, ApiCallFailed)

\* The mapping without its 401 branch.
StatusMessageNo401(status, raw) ==
  IF status = 403 THEN PermissionDenied
  ELSE IF status = 404 THEN ItemNotFound
  ELSE IF status = 400 THEN InvalidRequest
  ELSE raw

\* Lines 180-188.
StatusMessage(status, raw) ==
  IF status = 403 THEN PermissionDenied
  ELSE IF status = 404 THEN ItemNotFound
  ELSE IF status = 400 THEN InvalidRequest
  ELSE IF status = 401 THEN AuthorizationFailed
  ELSE raw

\* Line 174: !data?.success
Failed(body) == body = <<>> \/ body[1].success # <<TRUE>>

\* The outcome taken from the envelope alone, the invoke's error not looked at.
ApiOutcomeIgnoresInvokeError(r) ==
  IF Failed(r.data)
    THEN Rejected(PreferEmbedded(StatusMessage(ErrorStatus(r.data), RawError(r.data))))
  ELSE Resolved(r.data[1].data)

\* Lines 166-208 on the {data, error} of the invoke; the catch of 209-213 rethrows.
ApiOutcome(r) ==
  IF r.error # <<>> THEN Rejected(MsgOr(r.error[1].message, UnknownError))
  ELSE IF Failed(r.data)
    THEN Rejected(PreferEmbedded(StatusMessage(ErrorStatus(r.data), RawError(r.data))))
  ELSE Resolved(r.data[1].data)

\* The bodies 'zoho-api-call' can answer with, and the failures of the invoke.
Envelope(success, data, error, status) ==
  [success |-> success, data |-> data, error |-> error, status |-> status]

\* Error strings of the envelope: absent, plain text, and JSON texts
\* {"message":"Throttled"}, {"code":57,"message":"Quota"}, {"code":57},
\* {"message":""}, the cut-off {"message": and the scalars null and 42, and the
\* messages that are not strings: {"message":42} and {"message":[]}.
ErrPlain == W(<<"Upstream", "failure">>)
ErrThrottled == <<P("{"), S("message"), P(":"), S("Throttled"), P("}")>>
ErrQuota ==
  <<P("{"), S("code"), P(":"), N("57"), P(","), S("message"), P(":"), S("Quota"), P("}")>>
ErrCodeOnly == <<P("{"), S("code"), P(":"), N("57"), P("}")>>
ErrEmptyMessage == <<P("{"), S("message"), P(":"), S(Empty), P("}")>>
ErrCutOff == <<P("{"), S("message"), P(":")>>
ErrJsonNull == <<L("null")>>
ErrJsonNumber == <<N("42")>>
ErrNumberMessage == <<P("{"), S("message"), P(":"), N("42"), P("}")>>
ErrArrayMessage == <<P("{"), S("message"), P(":"), A(Empty), P("}")>>

UpstreamErrors ==
  { NoMsg, ErrPlain, ErrThrottled, ErrQuota, ErrCodeOnly, ErrEmptyMessage, ErrCutOff,
    ErrJsonNull, ErrJsonNumber, ErrNumberMessage, ErrArrayMessage }

Statuses == {<<>>, <<0>>, <<400>>, <<401>>, <<403>>, <<404>>, <<429>>, <<500>>}

ApiAnswers ==
  {[error |-> <<>>, data |-> <<Envelope(<<TRUE>>, d, NoMsg, <<>>)>>] : d \in {"payload", Null}}
    \cup {[error |-> <<>>, data |-> <<Envelope(sc, Null, e, st)>>] :
            sc \in {<<FALSE>>, <<>>}, e \in UpstreamErrors, st \in Statuses}
    \cup {[error |-> <<>>, data |-> <<>>]}
    \cup {[error |-> <<[message |-> m]>>, data |-> <<>>] :
            m \in {TransportDown, NoMsg, ErrThrottled}}

\* Lines 150-164: the one invocation of 'zoho-api-call', then the await. `name` is
\* the exported function that called the dispatcher and `a` its arguments; body is
\* <<>> when the caller passed none.
ZohoBooksApiCall_Invoke(s, name, a, endpoint, method, body) ==
  /\ BeginWith(s, name, One("dispatch"), "api_invoked", NoSnap,
               [endpoint |-> endpoint, method |-> method, body |-> body], FALSE, a)
  /\ UNCHANGED <<record, now, minted>>

\* One answer of each kind: success, an API-level failure with a mapped and with an
\* unmapped status, and a failed invocation.
SomeApiAnswers ==
  { [error |-> <<>>, data |-> <<Envelope(<<TRUE>>, "payload", NoMsg, <<>>)>>],
    [error |-> <<>>, data |-> <<Envelope(<<FALSE>>, Null, ErrPlain, <<401>>)>>],
    [error |-> <<>>, data |-> <<Envelope(<<FALSE>>, Null, ErrPlain, <<>>)>>],
    [error |-> <<[message |-> TransportDown]>>, data |-> <<>>] }

\* The remote procedure answers, or the invocation fails.
RemoteApi_Answer(s, answers) ==
  /\ pc[s] = "api_invoked"
  /\ \E a \in answers : resp' = [resp EXCEPT ![s] = a]
  /\ pc' = [pc EXCEPT ![s] = "api_answered"]
  /\ UNCHANGED <<record, now, minted, op, snap, remote, req, arg, result, cnt, discSince, modalVars>>

\* The exported functions that return the dispatcher's promise as it is.
DirectCallers ==
  {"getInvoices", "createCustomer", "createVendor", "getCashFlow", "getExpenseReport"}

\* The dispatcher re-issuing the request once when the answer's status is 401.
ZohoBooksApiCall_ReturnRetrying401(s) ==
  /\ pc[s] = "api_answered"
  /\ IF /\ resp[s].error = <<>> /\ Failed(resp[s].data)
        /\ ErrorStatus(resp[s].data) = 401 /\ cnt[s].dispatch < 2
       THEN /\ pc' = [pc EXCEPT ![s] = "api_invoked"]
            /\ cnt' = [cnt EXCEPT ![s].dispatch = @ + 1]
            /\ UNCHANGED result
       ELSE /\ Settle(s, ApiOutcome(resp[s]))
            /\ UNCHANGED cnt
  /\ UNCHANGED <<record, now, minted, op, snap, remote, resp, req, arg, discSince, modalVars>>

\* Lines 166-213.
ZohoBooksApiCall_Return(s) ==
  /\ pc[s] = "api_answered"
  /\ op[s] \in DirectCallers
  /\ Settle(s, ApiOutcome(resp[s]))
  /\ UNCHANGED <<record, now, minted, op, snap, remote, resp, req, arg, cnt, discSince, modalVars>>

\* ------------------------------------------------------------------ getInvoices
\* URLSearchParams: an ordered list of <<name, value>>; toString() joins name=value
\* with &.
RECURSIVE QueryString(_)
QueryString(params) ==
  IF params = <<>> THEN <<>>
  ELSE <<S(params[1][1]), P("="), params[1][2]>>
         \o (IF Len(params) = 1 THEN <<>> ELSE <<P("&")>> \o QueryString(Tail(params)))

\* `${endpoint}${params.toString() ? '?' + params.toString() : ''}`
WithQuery(path, params) ==
  <<S(path)>> \o (IF QueryString(params) = <<>> THEN <<>> ELSE <<P("?")>> \o QueryString(params))

\* A filter the caller may pass: absent (<<>>) or a value; 0 is a number too.
StatusFilters == {<<>>, <<S("paid")>>}
LimitFilters == {<<>>, <<N("0")>>, <<N("10")>>}
OffsetFilters == {<<>>, <<N("0")>>, <<N("20")>>}

\* The filters argument.
Filters(st, lim, off) == [status |-> st, limit |-> lim, offset |-> off]

\* The parameter set whether or not the filter was given.
ParamUnchecked(name, f) == <<<<name, IF f = <<>> THEN S("undefined") ELSE f[1]>>>>

\* if (filters?.x) params.set('x', ...): a truthy filter contributes one pair.
Param(name, f) == IF f # <<>> /\ TruthyValue(f[1]) THEN <<<<name, f[1]>>>> ELSE <<>>

\* Lines 290-306.
InvoicesEndpoint(st, lim, off) ==
  WithQuery("/invoices", Param("status", st) \o Param("limit", lim) \o Param("offset", off))

\* getInvoices with a freshness check of the stored token ahead of the dispatch.
GetInvoices_CallAfterTokenCheck(s) ==
  /\ \E st \in StatusFilters, lim \in LimitFilters, off \in OffsetFilters,
        r \in SelectSingle(record) :
       BeginWith(s, "getInvoices", [NoCalls EXCEPT !.read = 1, !.dispatch = 1],
                 "api_invoked",
                 [error |-> r.error,
                  data |-> IF r.data = <<>> THEN <<>> ELSE <<TokenColumns(r.data[1])>>],
                 [endpoint |-> InvoicesEndpoint(st, lim, off), method |-> "GET",
                  body |-> <<>>],
                 FALSE, Filters(st, lim, off))
  /\ UNCHANGED <<record, now, minted>>

\* Lines 281-309: the endpoint is built and the dispatcher called; no other request.
GetInvoices_Call(s) ==
  \E st \in StatusFilters, lim \in LimitFilters, off \in OffsetFilters :
    ZohoBooksApiCall_Invoke(s, "getInvoices", Filters(st, lim, off),
                            InvoicesEndpoint(st, lim, off), "GET", <<>>)

\* ------------------------------------------------------------------ values
\* The values of a response's data and of a caller's payload: strings S, numbers N,
\* the literals L, objects (a function from keys to values) and arrays.
O(fields) == <<"obj", fields>>
List(items) == <<"list", items>>
Undefined == L("undefined")

\* v?.key
Get(v, key) == IF v[1] = "obj" /\ key \in DOMAIN v[2] THEN v[2][key] ELSE Undefined

\* {...v}: the own members of an object; null and undefined spread to nothing.
Spread(v) == IF v[1] = "obj" THEN v[2] ELSE <<>>

\* {...obj, key: val}
WithKey(obj, key, val) ==
  [k \in DOMAIN obj \cup {key} |-> IF k = key THEN val ELSE obj[k]]

\* obj.key of a payload, undefined when the key is absent
Field(obj, key) == IF key \in DOMAIN obj THEN obj[key] ELSE Undefined

\* ------------------------------------------------------------------ contacts
ContactStatusFilters == {<<>>, <<S("active")>>}

\* The endpoint without the discriminator.
ContactsEndpointUnfiltered(st, lim, off, type) ==
  WithQuery("/contacts",
            Param("limit", lim) \o Param("offset", off) \o Param("status", st))

\* Lines 387-406 and 509-528: limit, offset, status when truthy, then contact_type.
ContactsEndpoint(st, lim, off, type) ==
  WithQuery("/contacts",
            Param("limit", lim) \o Param("offset", off) \o Param("status", st)
              \o <<<<"contact_type", S(type)>>>>)

\* Lines 378-408.
GetCustomers_Call(s) ==
  \E st \in ContactStatusFilters, lim \in LimitFilters, off \in OffsetFilters :
    ZohoBooksApiCall_Invoke(s, "getCustomers", Filters(st, lim, off),
                            ContactsEndpoint(st, lim, off, "customer"), "GET", <<>>)

\* Lines 500-530.
GetVendors_Call(s) ==
  \E st \in ContactStatusFilters, lim \in LimitFilters, off \in OffsetFilters :
    ZohoBooksApiCall_Invoke(s, "getVendors", Filters(st, lim, off),
                            ContactsEndpoint(st, lim, off, "vendor"), "GET", <<>>)

\* Lines 411-421 and 533-543: data?.contacts || [], replaced by [] when it is not
\* an array, put back over the members of data.
ContactsResult(data) ==
  LET c == Get(data, "contacts")
  IN O(WithKey(Spread(data), "contacts",
               IF TruthyValue(c) /\ c[1] = "list" THEN c ELSE List(<<>>)))

\* Lines 403-421 and 525-543 after the await: a rejection of the dispatcher passes,
\* a resolution is post-processed.
GetContacts_Return(s) ==
  /\ pc[s] = "api_answered"
  /\ op[s] \in {"getCustomers", "getVendors"}
  /\ LET r == ApiOutcome(resp[s])
     IN Settle(s, IF r.kind = "rejected" THEN r ELSE Resolved(ContactsResult(r.val)))
  /\ UNCHANGED <<record, now, minted, op, snap, remote, resp, req, arg, cnt, discSince, modalVars>>

\* The contact payloads a caller passes: the required name alone, with an optional
\* field, and carrying a contact_type of its own.
ContactPayloads ==
  { [contact_name |-> S("Acme")],
    [contact_name |-> S("Acme"), email |-> S("books@acme.test")],
    [contact_name |-> S("Acme"), contact_type |-> S("customer")],
    [contact_name |-> S("Acme"), contact_type |-> S("vendor")] }

\* Lines 433-470: customerData is the body as it is.
CreateCustomer_Call(s) ==
  \E customerData \in ContactPayloads :
    ZohoBooksApiCall_Invoke(s, "createCustomer", customerData,
                            <<S("/contacts")>>, "POST", <<customerData>>)

\* Lines 555-589: {...vendorData, contact_type: 'vendor'} is the body.
CreateVendor_Call(s) ==
  \E vendorData \in ContactPayloads :
    ZohoBooksApiCall_Invoke(s, "createVendor", vendorData,
                            <<S("/contacts")>>, "POST",
                            <<WithKey(vendorData, "contact_type", S("vendor"))>>)

\* ------------------------------------------------------------------ chart of accounts
MaxAccounts == 2

AccountIds == <<"a1", "a2", "a3", "a4">>
AccountTypes == {"expense", "income", "other_expense"}

Account(i, type) ==
  O([account_id |-> S(AccountIds[i]), account_name |-> S("Account"),
     account_type |-> S(type), is_active |-> L("true")])

\* The charts the upstream can return: up to MaxAccounts accounts of any types.
Charts ==
  UNION { { [i \in 1..n |-> Account(i, types[i])] : types \in [1..n -> AccountTypes] } :
          n \in 0..MaxAccounts }

\* Line 661: acc.account_type === 'expense'
IsExpenseAccount(acc) == Get(acc, "account_type") = S("expense")

\* Lines 662-666.
PickAccount(acc) ==
  O([account_id |-> Get(acc, "account_id"), account_name |-> Get(acc, "account_name"),
     account_type |-> Get(acc, "account_type")])

\* The accounts of the chart in their order, whatever their type.
ExpenseAccountsUnfiltered(data) ==
  LET c == Get(data, "chartofaccounts")
  IN IF TruthyValue(c) /\ c[1] = "list"
       THEN [i \in DOMAIN c[2] |-> PickAccount(c[2][i])]
       ELSE <<>>

\* Lines 657-667: the accounts of type expense, in the order of the chart; none
\* when chartofaccounts is missing or not an array.
ExpenseAccounts(data) ==
  LET c == Get(data, "chartofaccounts")
  IN IF TruthyValue(c) /\ c[1] = "list"
       THEN LET kept == SelectSeq(c[2], IsExpenseAccount)
            IN [i \in DOMAIN kept |-> PickAccount(kept[i])]
       ELSE <<>>

\* Lines 643-654.
GetExpenseAccounts_Call(s) ==
  ZohoBooksApiCall_Invoke(s, "getExpenseAccounts", NoArgs,
                          <<S("/chartofaccounts")>>, "GET", <<>>)

\* Lines 656-674 after the await; the catch rethrows.
GetExpenseAccounts_Return(s) ==
  /\ pc[s] = "api_answered"
  /\ op[s] = "getExpenseAccounts"
  /\ LET r == ApiOutcome(resp[s])
     IN Settle(s, IF r.kind = "rejected" THEN r
                  ELSE Resolved(List(ExpenseAccounts(r.val))))
  /\ UNCHANGED <<record, now, minted, op, snap, remote, resp, req, arg, cnt, discSince, modalVars>>

\* ------------------------------------------------------------------ createExpense
NoExpenseAccount ==
  W(<<"No", "expense", "accounts", "found", "in", "your", "Zoho", "Books", "chart", "of",
      "accounts", ".", "Please", "create", "an", "expense", "account", "first", ".">>)

\* The expenseData a caller passes: expense_date and total always, the others
\* optional (<<>> for a key left out).
ExpenseData(acc, vn, att, tt, extras) ==
  LET opts == [account_id |-> acc, vendor_name |-> vn, attachments |-> att,
               vendor_id |-> IF extras THEN <<S("v1")>> ELSE <<>>,
               reference_number |-> IF extras THEN <<S(Empty)>> ELSE <<>>,
               notes |-> IF extras THEN <<S("lunch")>> ELSE <<>>]
      keys == {k \in DOMAIN opts : opts[k] # <<>>}
  IN [k \in keys \cup {"expense_date", "total"} |->
        IF k = "expense_date" THEN S("2024-01-05")
        ELSE IF k = "total" THEN tt
        ELSE opts[k][1]]

ExpenseInputs ==
  { ExpenseData(acc, vn, att, tt, extras) :
      acc \in {<<>>, <<S(Empty)>>, <<S("acc9")>>},
      vn \in {<<>>, <<S("Acme")>>},
      att \in {<<>>, <<List(<<>>)>>, <<List(<<S("receipt.pdf")>>)>>},
      tt \in {N("25"), N("0")},
      extras \in BOOLEAN }

\* The payload keeping the caller's key for the amount.
ExpensePayloadKeepingTotal(d, accountId) ==
  LET copied == {k \in {"vendor_id", "reference_number", "notes"} : TruthyValue(Field(d, k))}
      att == IF TruthyValue(Field(d, "attachments")) /\ Len(Field(d, "attachments")[2]) > 0
               THEN {"attachments"} ELSE {}
  IN [k \in {"vendor_name", "account_id", "expense_date", "total"} \cup copied \cup att |->
        CASE k = "vendor_name" ->
               IF TruthyValue(Field(d, "vendor_name")) THEN d.vendor_name ELSE S("Expense")
          [] k = "account_id" -> accountId
          [] k = "expense_date" -> Field(d, "expense_date")
          [] k = "total" -> Field(d, "total")
          [] OTHER -> d[k]]

\* Lines 892-911.
ExpensePayload(d, accountId) ==
  LET copied == {k \in {"vendor_id", "reference_number", "notes"} : TruthyValue(Field(d, k))}
      att == IF TruthyValue(Field(d, "attachments")) /\ Len(Field(d, "attachments")[2]) > 0
               THEN {"attachments"} ELSE {}
  IN [k \in {"vendor_name", "account_id", "expense_date", "amount"} \cup copied \cup att |->
        CASE k = "vendor_name" ->
               IF TruthyValue(Field(d, "vendor_name")) THEN d.vendor_name ELSE S("Expense")
          [] k = "account_id" -> accountId
          [] k = "expense_date" -> Field(d, "expense_date")
          [] k = "amount" -> Field(d, "total")
          [] OTHER -> d[k]]

\* createExpense fetching the chart of accounts whether or not the caller named an
\* account.
CreateExpense_CallAlwaysFetching(s) ==
  \E expenseData \in ExpenseInputs :
    ZohoBooksApiCall_Invoke(s, "createExpense", expenseData,
                            <<S("/chartofaccounts")>>, "GET", <<>>)

\* Lines 873-879 and 890-921: with an account_id the POST is invoked at once;
\* without one the chart of accounts is fetched first.
CreateExpense_Call(s) ==
  \E expenseData \in ExpenseInputs :
    IF TruthyValue(Field(expenseData, "account_id"))
      THEN ZohoBooksApiCall_Invoke(s, "createExpense", expenseData, <<S("/expenses")>>,
                                   "POST",
                                   <<ExpensePayload(expenseData, expenseData.account_id)>>)
      ELSE ZohoBooksApiCall_Invoke(s, "createExpense", expenseData,
                                   <<S("/chartofaccounts")>>, "GET", <<>>)

\* Lines 879-928 after an await. After the fetch of the accounts: its rejection
\* passes, an empty list rejects, otherwise the POST is invoked with the first
\* account. After the POST: its outcome is the operation's.
CreateExpense_Resume(s) ==
  /\ pc[s] = "api_answered"
  /\ op[s] = "createExpense"
  /\ LET r == ApiOutcome(resp[s])
         fetched == req[s].method = "GET"
         accounts == IF fetched /\ r.kind = "resolved" THEN ExpenseAccounts(r.val) ELSE <<>>
     IN IF accounts # <<>>
          THEN /\ req' = [req EXCEPT ![s] =
                           [endpoint |-> <<S("/expenses")>>, method |-> "POST",
                            body |-> <<ExpensePayload(arg[s],
                                                       Get(accounts[1], "account_id"))>>]]
               /\ cnt' = [cnt EXCEPT ![s].dispatch = @ + 1]
               /\ pc' = [pc EXCEPT ![s] = "api_invoked"]
               /\ UNCHANGED result
          ELSE /\ Settle(s, IF fetched /\ r.kind = "resolved"
                              THEN Rejected(NoExpenseAccount) ELSE r)
               /\ UNCHANGED <<req, cnt>>
  /\ UNCHANGED <<record, now, minted, op, snap, remote, resp, arg, discSince, modalVars>>

\* ------------------------------------------------------------------ texts and numbers
\* The strings of an expense record are texts, sequences of characters, so that
\* trim, toLowerCase and parseFloat work on them; its numbers are counted in
\* hundredths, and NaN is the number that is no number.
T(chars) == <<"text", chars>>
Num(hundredths) == <<"number", hundredths>>
NaN == <<"nan", 0>>

Digits == <<"0", "1", "2", "3", "4", "5", "6", "7", "8", "9">>
UpperCase == 
  <<"A", "B", "C", "D", "E", "F", "G", "H", "I", "J", "K", "L", "M">> \o
  <<"N", "O", "P", "Q", "R", "S", "T", "U", "V", "W", "X", "Y", "Z">>
LowerCase == 
  <<"a", "b", "c", "d", "e", "f", "g", "h", "i", "j", "k", "l", "m">> \o
  <<"n", "o", "p", "q", "r", "s", "t", "u", "v", "w", "x", "y", "z">>

IsDigit(c) == \E i \in DOMAIN Digits : Digits[i] = c
DigitValue(c) == (CHOOSE i \in DOMAIN Digits : Digits[i] = c) - 1

\* String.prototype.trim
RECURSIVE TrimStart(_)
TrimStart(chars) ==
  IF chars # <<>> /\ chars[1] = " " THEN TrimStart(Tail(chars)) ELSE chars

RECURSIVE TrimEnd(_)
TrimEnd(chars) ==
  IF chars # <<>> /\ chars[Len(chars)] = " "
    THEN TrimEnd(SubSeq(chars, 1, Len(chars) - 1)) ELSE chars

Trim(chars) == TrimEnd(TrimStart(chars))

\* String.prototype.toLowerCase
ToLowerCase(chars) ==
  [i \in DOMAIN chars |->
     IF \E j \in DOMAIN UpperCase : UpperCase[j] = chars[i]
       THEN LowerCase[CHOOSE j \in DOMAIN UpperCase : UpperCase[j] = chars[i]]
       ELSE chars[i]]

\* The decimal digits of a natural number.
RECURSIVE IntText(_)
IntText(n) ==
  IF n < 10 THEN <<Digits[n + 1]>> ELSE IntText(n \div 10) \o <<Digits[(n % 10) + 1]>>

\* String(number), the number in hundredths: -5, 12.5, 0.07.
NumberText(h) ==
  LET a == IF h < 0 THEN 0 - h ELSE h
      fr == a % 100
  IN (IF h < 0 THEN <<"-">> ELSE <<>>) \o IntText(a \div 100)
       \o (IF fr = 0 THEN <<>>
           ELSE IF fr % 10 = 0 THEN <<".", Digits[(fr \div 10) + 1]>>
           ELSE <<".", Digits[(fr \div 10) + 1], Digits[(fr % 10) + 1]>>)

\* String(v) for the values a record holds.
StringOf(v) ==
  CASE v[1] = "text" -> v[2]
    [] v[1] = "number" -> NumberText(v[2])
    [] v[1] = "nan" -> <<"N", "a", "N">>
    [] v = L("true") -> <<"t", "r", "u", "e">>
    [] v = L("false") -> <<"f", "a", "l", "s", "e">>
    [] v = L("null") -> <<"n", "u", "l", "l">>
    [] v = Undefined -> <<"u", "n", "d", "e", "f", "i", "n", "e", "d">>
    [] v[1] = "list" /\ v[2] = <<>> -> <<>>
    [] OTHER -> 
         <<"[", "o", "b", "j", "e", "c", "t", " ", "O", "b", "j", "e", "c", "t", "]">>

\* The longest run of digits a text starts with.
RECURSIVE DigitPrefix(_)
DigitPrefix(chars) ==
  IF chars # <<>> /\ IsDigit(chars[1])
    THEN <<chars[1]>> \o DigitPrefix(Tail(chars)) ELSE <<>>

RECURSIVE IntOf(_)
IntOf(digits) ==
  IF digits = <<>> THEN 0
  ELSE IntOf(SubSeq(digits, 1, Len(digits) - 1)) * 10 + DigitValue(digits[Len(digits)])

\* parseFloat: leading blanks, a sign, digits, a fraction; whatever follows is
\* ignored, and a text with no digit there gives NaN. Fractions are read to the
\* hundredth.
ParseFloat(chars) ==
  LET s1 == TrimStart(chars)
      signed == s1 # <<>> /\ s1[1] \in {"-", "+"}
      s2 == IF signed THEN Tail(s1) ELSE s1
      ip == DigitPrefix(s2)
      rest == SubSeq(s2, Len(ip) + 1, Len(s2))
      fp == IF rest # <<>> /\ rest[1] = "." THEN DigitPrefix(Tail(rest)) ELSE <<>>
      frac == (IF Len(fp) >= 1 THEN 10 * DigitValue(fp[1]) ELSE 0)
                + (IF Len(fp) >= 2 THEN DigitValue(fp[2]) ELSE 0)
      magnitude == IntOf(ip) * 100 + frac
  IN IF ip = <<>> /\ fp = <<>> THEN NaN
     ELSE Num(IF signed /\ s1[1] = "-" THEN 0 - magnitude ELSE magnitude)

\* ------------------------------------------------------------------ getExpenses
\* Lines 690-706.
ExpensesEndpoint(st, lim, off) ==
  WithQuery("/expenses", Param("limit", lim) \o Param("offset", off) \o Param("status", st))

\* Lines 681-708.
GetExpenses_Call(s) ==
  \E st \in StatusFilters, lim \in LimitFilters, off \in OffsetFilters :
    ZohoBooksApiCall_Invoke(s, "getExpenses", Filters(st, lim, off),
                            ExpensesEndpoint(st, lim, off), "GET", <<>>)

\* a || b || c on values
FirstTruthy(a, b, c) == IF TruthyValue(a) THEN a ELSE IF TruthyValue(b) THEN b ELSE c

\* new Date().toISOString().split('T')[0] at clock t
DateText(t) == <<"2", "0", "2", "4", "-", "0", "1", "-", "0">> \o IntText(t + 1)

\* `expense-${index}-${Date.now()}`
SynthesizedId(index, t) ==
  <<"e", "x", "p", "e", "n", "s", "e", "-">> \o IntText(index) \o <<"-">> \o IntText(t)

\* typeof v === 'number' && v > 0
PositiveNumber(v) == v[1] = "number" /\ v[2] > 0

\* An amount that accepts positive numbers only and parses no string.
AmountOfNumbersOnly(expense) ==
  IF PositiveNumber(Get(expense, "amount")) THEN Get(expense, "amount")
  ELSE IF PositiveNumber(Get(expense, "total")) THEN Get(expense, "total")
  ELSE Num(0)

\* Lines 740-751.
AmountOf(expense) ==
  LET a == Get(expense, "amount")
      tt == Get(expense, "total")
      parsed(v) == LET f == ParseFloat(StringOf(v)) IN IF f = NaN THEN Num(0) ELSE f
  IN IF PositiveNumber(a) THEN a
     ELSE IF PositiveNumber(tt) THEN tt
     ELSE IF TruthyValue(a) THEN parsed(a)
     ELSE IF TruthyValue(tt) THEN parsed(tt)
     ELSE Num(0)

\* Lines 728-734 and 797.
VendorNameOf(expense) ==
  LET name == IF TruthyValue(Get(expense, "vendor_name"))
                THEN Trim(StringOf(Get(expense, "vendor_name")))
              ELSE IF TruthyValue(Get(expense, "vendor"))
                THEN Trim(StringOf(Get(expense, "vendor")))
              ELSE <<>>
  IN IF name # <<>> THEN T(name) ELSE T(
                                     <<"U", "n", "k", "n", "o", "w", "n", " ", "V", "e", "n", "d", "o", "r">>)

\* Lines 754-759.
ExpenseDateOf(expense, t) ==
  LET d1 == Get(expense, "expense_date")
      d2 == Get(expense, "date")
  IN IF TruthyValue(d1) /\ Trim(StringOf(d1)) # <<>> THEN T(Trim(StringOf(d1)))
     ELSE IF TruthyValue(d2) /\ Trim(StringOf(d2)) # <<>> THEN T(Trim(StringOf(d2)))
     ELSE T(DateText(t))

\* Lines 762-763.
StatusOfExpense(expense) ==
  T(Trim(ToLowerCase(StringOf(
      FirstTruthy(Get(expense, "status"), Get(expense, "payment_status"),
                  T(
                    <<"n", "o", "n", "b", "i", "l", "l", "a", "b", "l", "e">>))))))

\* An identifier that ignores the record's own ones.
ExpenseIdOfAlwaysSynthesized(expense, index, t) == T(SynthesizedId(index, t))

\* An identifier that looks at the generic id first.
ExpenseIdOfGenericFirst(expense, index, t) ==
  T(StringOf(FirstTruthy(Get(expense, "id"), Get(expense, "expense_id"),
                         T(SynthesizedId(index, t)))))

\* Lines 766 and 796.
ExpenseIdOf(expense, index, t) ==
  T(StringOf(FirstTruthy(Get(expense, "expense_id"), Get(expense, "id"),
                         T(SynthesizedId(index, t)))))

\* Lines 778-790: the account of the record, as <<account_name, account_id>>.
AccountOf(expense) ==
  LET acc == Get(expense, "account")
      name == IF ~TruthyValue(acc) THEN T(<<>>)
              ELSE IF acc[1] \in {"obj", "list"}
                THEN FirstTruthy(Get(acc, "account_name"), T(<<>>), T(<<>>))
              ELSE T(Trim(StringOf(acc)))
      id == IF TruthyValue(acc) /\ acc[1] \in {"obj", "list"}
              THEN FirstTruthy(Get(acc, "account_id"), T(<<>>), T(<<>>))
              ELSE T(<<>>)
      flat == Get(expense, "account_id")
  IN <<name, IF TruthyValue(flat) /\ ~TruthyValue(id) THEN T(Trim(StringOf(flat))) ELSE id>>

\* Lines 724-812: the normalized record of the raw record at `index`.
Normalize(expense, index, t) ==
  O([expense_id |-> ExpenseIdOf(expense, index, t),
     vendor_name |-> VendorNameOf(expense),
     vendor_id |-> IF TruthyValue(Get(expense, "vendor_id"))
                     THEN T(Trim(StringOf(Get(expense, "vendor_id")))) ELSE T(<<>>),
     amount |-> AmountOf(expense),
     status |-> StatusOfExpense(expense),
     expense_date |-> ExpenseDateOf(expense, t),
     reference_number |-> FirstTruthy(Get(expense, "reference_number"), T(<<>>), T(<<>>)),
     customer_name |-> FirstTruthy(Get(expense, "customer_name"), T(<<>>), T(<<>>)),
     paid_through |-> FirstTruthy(Get(expense, "paid_through"), T(<<>>), T(<<>>)),
     account_name |-> AccountOf(expense)[1],
     account_id |-> AccountOf(expense)[2],
     currency |-> FirstTruthy(Get(expense, "currency_code"), Get(expense, "currency"),
                              T(<<>>))])

\* Reading a property of null or undefined.
TypeErrorMessage == W(<<"Cannot", "read", "properties", "of", "null">>)

\* Lines 714-719: data?.expenses || [], replaced by [] when it is not an array.
RawExpenses(data) ==
  LET e == Get(data, "expenses")
  IN IF TruthyValue(e) /\ e[1] = "list" THEN e[2] ELSE <<>>

\* Lines 710-819 after the await: a rejection of the dispatcher passes; the records
\* are normalized in their order and put back over the members of data. A record
\* that is null or undefined makes the map throw.
GetExpenses_Return(s) ==
  /\ pc[s] = "api_answered"
  /\ op[s] = "getExpenses"
  /\ LET r == ApiOutcome(resp[s])
         raw == IF r.kind = "resolved" THEN RawExpenses(r.val) ELSE <<>>
     IN Settle(s,
          IF r.kind = "rejected" THEN r
          ELSE IF \E i \in DOMAIN raw : raw[i] \in {L("null"), Undefined}
            THEN Rejected(TypeErrorMessage)
          ELSE Resolved(O(WithKey(Spread(r.val), "expenses",
                 List([i \in DOMAIN raw |-> Normalize(raw[i], i - 1, now)])))))
  /\ UNCHANGED <<record, now, minted, op, snap, remote, resp, req, arg, cnt, discSince, modalVars>>

\* ------------------------------------------------------------------ upstream data
\* A raw expense record; a field the upstream left out is undefined.
RawExpense(a, tt, st, ps, eid, id, rich) ==
  O([amount |-> a, total |-> tt, status |-> st, payment_status |-> ps,
     expense_id |-> eid, id |-> id,
     vendor |-> IF rich THEN T(<<" ", "A", "c", "m", "e", " ">>) ELSE Undefined,
     date |-> IF rich THEN T(<<"2", "0", "2", "4", "-", "0", "1", "-", "0", "5">>) ELSE Undefined,
     account |-> IF rich THEN O([account_name |-> T(<<"T", "r", "a", "v", "e", "l">>)]) ELSE Undefined,
     account_id |-> IF rich THEN T(<<"a", "7">>) ELSE Undefined,
     currency |-> IF rich THEN T(<<"E", "U", "R">>) ELSE Undefined])

AmountValues ==
  { Undefined, Num(1250), Num(0), Num(0 - 500), NaN,
    T(<<"1", "2", ".", "5", "0">>), T(<<"-", "3">>), T(<<"a", "b", "c">>) }
TotalValues == { Undefined, Num(900), Num(0 - 100), T(<<"4", ".", "5">>), T(<<"a", "b", "c">>) }
StatusValues == { Undefined, T(<<"P", "a", "i", "d">>), T(<<" ">>) }
PaymentStatusValues == { Undefined, T(<<"U", "N", "P", "A", "I", "D">>) }
ExpenseIdValues == { Undefined, T(<<"E", "1">>), Num(700), List(<<>>) }
IdValues == { Undefined, T(<<"7">>) }

RawRecords ==
  { RawExpense(a, tt, st, ps, eid, id, rich) :
      a \in AmountValues, tt \in TotalValues, st \in StatusValues,
      ps \in PaymentStatusValues, eid \in ExpenseIdValues, id \in IdValues,
      rich \in BOOLEAN }

Success(data) == [error |-> <<>>, data |-> <<Envelope(<<TRUE>>, data, NoMsg, <<>>)>>]

\* One upstream array of a single record each.
ExpenseAnswers == { Success(O([expenses |-> List(<<r>>)])) : r \in RawRecords }

\* The record of spec section 8 and a record with no field at all.
RawScenario ==
  O([amount |-> T(<<"1", "2", ".", "5", "0">>), vendor |-> T(<<"A", "c", "m", "e">>), date |-> T(<<"2", "0", "2", "4", "-", "0", "1", "-", "0", "5">>)])
RawBare == O(<<>>)

\* What 'zoho-api-call' answers to the accessors: no data, contacts, charts of
\* accounts, expenses, an API-level failure and a failed invocation.
AccessAnswers ==
  { Success(d) :
      d \in { L("null"),
              O([contacts |-> List(<<O([contact_id |-> S("c1")])>>), page |-> N("1")]),
              O([contacts |-> S("none")]),
              O([chartofaccounts |-> S("none")]),
              O([expenses |-> S("none")]),
              O([expenses |-> List(<<RawScenario>>)]),
              O([expenses |-> List(<<RawBare, RawScenario, RawBare>>), page |-> N("1")]),
              O([expenses |-> List(<<RawBare, L("null")>>)]) } }
    \cup { Success(O([chartofaccounts |-> List(c)])) : c \in Charts }
    \cup { [error |-> <<>>, data |-> <<Envelope(<<FALSE>>, L("null"), ErrPlain, <<404>>)>>],
           [error |-> <<[message |-> TransportDown]>>, data |-> <<>>] }

\* ------------------------------------------------------------------ organization
\* Lines 256-263.
GetOrganizationDetails_Call(s) ==
  ZohoBooksApiCall_Invoke(s, "getOrganizationDetails", NoArgs, <<S("/organization")>>,
                          "GET", <<>>)

\* Lines 273: the currency returned when the fetch fails.
DefaultCurrency == O([currency_code |-> T(<<"U", "S", "D">>), currency_symbol |-> T(<<"$">>)])

\* Lines 265-269.
CurrencyOf(data) ==
  O([currency_code |->
       FirstTruthy(Get(Get(data, "organization"), "currency_code"),
                   T(<<"U", "S", "D">>), T(<<"U", "S", "D">>)),
     currency_symbol |->
       FirstTruthy(Get(Get(data, "organization"), "currency_symbol"),
                   T(<<"$">>), T(<<"$">>))])

\* The catch block passing the dispatcher's error on.
GetOrganizationDetails_ReturnRethrowing(s) ==
  /\ pc[s] = "api_answered"
  /\ op[s] = "getOrganizationDetails"
  /\ LET r == ApiOutcome(resp[s])
     IN Settle(s, IF r.kind = "rejected" THEN r ELSE Resolved(CurrencyOf(r.val)))
  /\ UNCHANGED <<record, now, minted, op, snap, remote, resp, req, arg, cnt, discSince, modalVars>>

\* Lines 265-274: the catch block returns the default currency.
GetOrganizationDetails_Return(s) ==
  /\ pc[s] = "api_answered"
  /\ op[s] = "getOrganizationDetails"
  /\ LET r == ApiOutcome(resp[s])
     IN Settle(s, IF r.kind = "rejected" THEN Resolved(DefaultCurrency)
                  ELSE Resolved(CurrencyOf(r.val)))
  /\ UNCHANGED <<record, now, minted, op, snap, remote, resp, req, arg, cnt, discSince, modalVars>>

\* ------------------------------------------------------------------ reports
\* a - b on the values the reports carry: numbers, null (0) and undefined (NaN).
Minus(a, b) ==
  LET n(v) == IF v[1] = "number" THEN v ELSE IF v = L("null") THEN Num(0) ELSE NaN
  IN IF n(a) = NaN \/ n(b) = NaN THEN NaN ELSE Num(n(a)[2] - n(b)[2])

\* Lines 947-951 and 987-990.
ZeroProfitAndLoss == O([total_income |-> Num(0), total_expenses |-> Num(0), net_profit |-> Num(0)])
ZeroBalance == O([total_assets |-> Num(0), total_liabilities |-> Num(0)])

\* Lines 947-968.
ProfitAndLossOf(data) ==
  LET report == Get(data, "profit_and_loss")
  IN IF ~TruthyValue(data) THEN ZeroProfitAndLoss
     ELSE IF ~TruthyValue(report) THEN data
     ELSE O([total_income |-> FirstTruthy(Get(report, "total_income"), Num(0), Num(0)),
             total_expenses |-> FirstTruthy(Get(report, "total_expenses"), Num(0), Num(0)),
             net_profit |->
               FirstTruthy(Get(report, "net_profit"),
                           Minus(Get(report, "total_income"), Get(report, "total_expenses")),
                           Num(0))])

\* Lines 987-1003.
BalanceOf(data) ==
  LET report == Get(data, "balance_sheet")
  IN IF ~TruthyValue(data) THEN ZeroBalance
     ELSE IF ~TruthyValue(report) THEN data
     ELSE O([total_assets |-> FirstTruthy(Get(report, "total_assets"), Num(0), Num(0)),
             total_liabilities |->
               FirstTruthy(Get(report, "total_liabilities"), Num(0), Num(0))])

\* Lines 935-943.
GetProfitAndLoss_Call(s) ==
  ZohoBooksApiCall_Invoke(s, "getProfitAndLoss", NoArgs, <<S("/reports/profitandloss")>>,
                          "GET", <<>>)

\* Lines 944-972: the catch block rethrows.
GetProfitAndLoss_Return(s) ==
  /\ pc[s] = "api_answered"
  /\ op[s] = "getProfitAndLoss"
  /\ LET r == ApiOutcome(resp[s])
     IN Settle(s, IF r.kind = "rejected" THEN r ELSE Resolved(ProfitAndLossOf(r.val)))
  /\ UNCHANGED <<record, now, minted, op, snap, remote, resp, req, arg, cnt, discSince, modalVars>>

\* Lines 975-983.
GetBalance_Call(s) ==
  ZohoBooksApiCall_Invoke(s, "getBalance", NoArgs, <<S("/reports/balancesheet")>>,
                          "GET", <<>>)

\* Lines 984-1007: the catch block rethrows.
GetBalance_Return(s) ==
  /\ pc[s] = "api_answered"
  /\ op[s] = "getBalance"
  /\ LET r == ApiOutcome(resp[s])
     IN Settle(s, IF r.kind = "rejected" THEN r ELSE Resolved(BalanceOf(r.val)))
  /\ UNCHANGED <<record, now, minted, op, snap, remote, resp, req, arg, cnt, discSince, modalVars>>

\* Lines 1010-1025: the data, or the rethrown error, of the dispatcher.
GetCashFlow_Call(s) ==
  ZohoBooksApiCall_Invoke(s, "getCashFlow", NoArgs, <<S("/reports/cashflow")>>, "GET", <<>>)

\* Lines 1027-1042: the data, or the rethrown error, of the dispatcher.
GetExpenseReport_Call(s) ==
  ZohoBooksApiCall_Invoke(s, "getExpenseReport", NoArgs, <<S("/reports/expenses")>>,
                          "GET", <<>>)

\* What 'zoho-api-call' answers to the reports and to /organization: no data, a
\* profit and loss report with and without its net profit, an empty one, a balance
\* sheet, an organization, another structure, API-level failures and a failed
\* invocation.
ReportAnswers ==
  { Success(d) :
      d \in { L("null"),
              O([profit_and_loss |->
                   O([total_income |-> Num(5000), total_expenses |-> Num(2000)])]),
              O([profit_and_loss |->
                   O([total_income |-> Num(5000), total_expenses |-> Num(2000),
                      net_profit |-> Num(2500)])]),
              O([profit_and_loss |-> O([total_income |-> Num(2000)])]),
              O([balance_sheet |-> O([total_assets |-> Num(9000)])]),
              O([organization |-> O([currency_code |-> T(<<"E", "U", "R">>)])]),
              O([rows |-> List(<<>>)]) } }
    \cup { [error |-> <<>>, data |-> <<Envelope(<<FALSE>>, L("null"), ErrPlain, <<404>>)>>],
           [error |-> <<>>, data |-> <<Envelope(<<FALSE>>, L("null"), ErrPlain, <<>>)>>],
           [error |-> <<[message |-> TransportDown]>>, data |-> <<>>] }

\* ------------------------------------------------------------------ detail modal
\* The vendors of the list; the modal edits contact_name, email, phone and
\* company_name in the same way, of which contact_name is kept.
Vendors == {"v1", "v2"}
Vendor(id) == [contact_id |-> id, contact_name |-> IF id = "v1" THEN "Acme" ELSE "Bolt"]

\* What the user types into the field.
Typed == {"Zed"}

NoVendor == <<>>
NoData == <<>>
NoUpdate == <<>>

\* VendorDetailModal line 31: the modal renders.
Visible == showDetailModal /\ selectedVendor # NoVendor

\* VendorsTab lines 26-29: the View button of a card; onView is awaited.
HandleViewVendor_Click(v) ==
  /\ viewing' = viewing \cup {v}
  /\ UNCHANGED <<selectedVendor, showDetailModal, isEditing, editData, isSaving, deleting,
                 update, saved, editedFrom>>
  /\ UNCHANGED clientVars

\* VendorsTab lines 30-31, once onView resolved.
HandleViewVendor_Resume(v) ==
  /\ v \in viewing
  /\ viewing' = viewing \ {v}
  /\ selectedVendor' = <<Vendor(v)>>
  /\ showDetailModal' = TRUE
  /\ UNCHANGED <<isEditing, editData, isSaving, deleting, update, saved, editedFrom>>
  /\ UNCHANGED clientVars

\* VendorsTab line 28: onView rejected, the handler ends there.
HandleViewVendor_Fail(v) ==
  /\ v \in viewing
  /\ viewing' = viewing \ {v}
  /\ UNCHANGED <<selectedVendor, showDetailModal, isEditing, editData, isSaving, deleting,
                 update, saved, editedFrom>>
  /\ UNCHANGED clientVars

\* VendorsTab lines 92-95, from the X and Close buttons (modal lines 68 and 163):
\* the modal's own state stays as it is.
OnClose ==
  /\ Visible
  /\ showDetailModal' = FALSE
  /\ selectedVendor' = NoVendor
  /\ UNCHANGED <<isEditing, editData, isSaving, viewing, deleting, update, saved,
                 editedFrom>>
  /\ UNCHANGED clientVars

\* VendorDetailModal lines 33-41, from the Edit button (153-161).
HandleEdit ==
  /\ Visible
  /\ ~isEditing
  /\ editData' = <<[contact_name |-> selectedVendor[1].contact_name]>>
  /\ editedFrom' = <<selectedVendor[1].contact_id>>
  /\ isEditing' = TRUE
  /\ UNCHANGED <<selectedVendor, showDetailModal, isSaving, viewing, deleting, update,
                 saved>>
  /\ UNCHANGED clientVars

\* VendorDetailModal lines 104-111: the input of a field, rendered in edit mode
\* when editData is not null.
ChangeField(t) ==
  /\ Visible
  /\ isEditing
  /\ editData # NoData
  /\ editData' = <<[editData[1] EXCEPT !.contact_name = t]>>
  /\ UNCHANGED <<selectedVendor, showDetailModal, isEditing, isSaving, viewing, deleting,
                 update, saved, editedFrom>>
  /\ UNCHANGED clientVars

\* VendorDetailModal lines 185-193: the Cancel button.
Cancel ==
  /\ Visible
  /\ isEditing
  /\ isEditing' = FALSE
  /\ editData' = NoData
  /\ editedFrom' = <<>>
  /\ UNCHANGED <<selectedVendor, showDetailModal, isSaving, viewing, deleting, update,
                 saved>>
  /\ UNCHANGED clientVars

\* VendorDetailModal lines 43-47, from the Save button (178-184, disabled while
\* isSaving): onUpdate is called with the id of the displayed vendor and awaited.
HandleSave_Click ==
  /\ Visible
  /\ isEditing
  /\ ~isSaving
  /\ editData # NoData
  /\ isSaving' = TRUE
  /\ update' = <<[id |-> selectedVendor[1].contact_id, data |-> editData[1],
                  from |-> editedFrom, state |-> "pending"]>>
  /\ saved' = "pending"
  /\ UNCHANGED <<selectedVendor, showDetailModal, isEditing, editData, viewing, deleting,
                 editedFrom>>
  /\ UNCHANGED clientVars

\* A handler that lets the error of onUpdate through.
OnUpdate_RejectRethrowing ==
  /\ update # NoUpdate
  /\ update[1].state = "pending"
  /\ update' = <<[update[1] EXCEPT !.state = "rejected"]>>
  /\ isSaving' = FALSE
  /\ saved' = "rejected"
  /\ UNCHANGED <<selectedVendor, showDetailModal, isEditing, editData, viewing, deleting,
                 editedFrom>>
  /\ UNCHANGED clientVars

\* VendorDetailModal lines 48-49 and 52-54: onUpdate resolved.
OnUpdate_Resolve ==
  /\ update # NoUpdate
  /\ update[1].state = "pending"
  /\ update' = <<[update[1] EXCEPT !.state = "resolved"]>>
  /\ isEditing' = FALSE
  /\ editData' = NoData
  /\ editedFrom' = <<>>
  /\ isSaving' = FALSE
  /\ saved' = "fulfilled"
  /\ UNCHANGED <<selectedVendor, showDetailModal, viewing, deleting>>
  /\ UNCHANGED clientVars

\* VendorDetailModal lines 50-54: onUpdate rejected; the error is logged.
OnUpdate_Reject ==
  /\ update # NoUpdate
  /\ update[1].state = "pending"
  /\ update' = <<[update[1] EXCEPT !.state = "rejected"]>>
  /\ isSaving' = FALSE
  /\ saved' = "fulfilled"
  /\ UNCHANGED <<selectedVendor, showDetailModal, isEditing, editData, viewing, deleting,
                 editedFrom>>
  /\ UNCHANGED clientVars

\* VendorDetailModal lines 57-58, from the Delete button (168-174): onDelete is
\* awaited.
HandleDelete_Click ==
  /\ Visible
  /\ ~isEditing
  /\ deleting' = TRUE
  /\ UNCHANGED <<selectedVendor, showDetailModal, isEditing, editData, isSaving, viewing,
                 update, saved, editedFrom>>
  /\ UNCHANGED clientVars

\* VendorDetailModal line 59: onDelete resolved, onClose() runs (VendorsTab 92-95).
HandleDelete_Resume ==
  /\ deleting
  /\ deleting' = FALSE
  /\ showDetailModal' = FALSE
  /\ selectedVendor' = NoVendor
  /\ UNCHANGED <<isEditing, editData, isSaving, viewing, update, saved, editedFrom>>
  /\ UNCHANGED clientVars

\* VendorDetailModal line 58: onDelete rejected, the handler ends there.
HandleDelete_Fail ==
  /\ deleting
  /\ deleting' = FALSE
  /\ UNCHANGED <<selectedVendor, showDetailModal, isEditing, editData, isSaving, viewing,
                 update, saved, editedFrom>>
  /\ UNCHANGED clientVars

\* ------------------------------------------------------------------ specification

Init ==
  /\ record \in InitRecords
  /\ now = 0
  /\ minted = 0
  /\ pc = [s \in Sessions |-> "idle"]
  /\ op = [s \in Sessions |-> "none"]
  /\ snap = [s \in Sessions |-> NoSnap]
  /\ remote = [s \in Sessions |-> Null]
  /\ resp = [s \in Sessions |-> NoSnap]
  /\ req = [s \in Sessions |-> NoRequest]
  /\ arg = [s \in Sessions |-> NoArgs]
  /\ result = [s \in Sessions |-> Pending]
  /\ cnt = [s \in Sessions |-> NoCalls]
  /\ discSince = [s \in Sessions |-> FALSE]
  /\ selectedVendor = NoVendor
  /\ showDetailModal = FALSE
  /\ isEditing = FALSE
  /\ editData = NoData
  /\ isSaving = FALSE
  /\ viewing = {}
  /\ deleting = FALSE
  /\ update = NoUpdate
  /\ saved = "none"
  /\ editedFrom = <<>>

Next ==
  \/ Tick
  \/ \E s \in Callers :
       \/ GetValidAccessToken_Select(s)
       \/ GetValidAccessToken_Check(s)
       \/ RefreshZohoBooksToken_Invoke(s)
       \/ RemoteRefresh_Read(s)
       \/ RemoteRefresh_Finish(s)
       \/ RefreshZohoBooksToken_Return(s)
       \/ GetZohoBooksStatus_Select(s)
       \/ GetZohoBooksStatus_Return(s)
       \/ GetInvoices_Call(s)
       \/ RemoteApi_Answer(s, SomeApiAnswers)
       \/ ZohoBooksApiCall_Return(s)
  \/ \E s \in Sessions :
       \/ DisconnectZohoBooks_Update(s)
       \/ DisconnectZohoBooks_Return(s)

Spec == Init /\ [][Next]_vars

\* The dispatcher alone, over every answer of the remote procedure.
DispatchNext ==
  \E s \in Callers :
    \/ GetInvoices_Call(s)
    \/ RemoteApi_Answer(s, ApiAnswers)
    \/ ZohoBooksApiCall_Return(s)

DispatchSpec == Init /\ [][DispatchNext]_vars

\* The resource accessors over what the upstream can answer them; the integration
\* record, which they never look at, is a connected one.
AccessInit == Init /\ record # <<>> /\ record[1].is_connected

AccessNext ==
  \E s \in Callers :
    \/ GetInvoices_Call(s)
    \/ GetCustomers_Call(s)
    \/ GetVendors_Call(s)
    \/ GetContacts_Return(s)
    \/ CreateCustomer_Call(s)
    \/ CreateVendor_Call(s)
    \/ GetExpenseAccounts_Call(s)
    \/ GetExpenseAccounts_Return(s)
    \/ GetExpenses_Call(s)
    \/ GetExpenses_Return(s)
    \/ CreateExpense_Call(s)
    \/ CreateExpense_Resume(s)
    \/ RemoteApi_Answer(s, AccessAnswers)
    \/ ZohoBooksApiCall_Return(s)

AccessSpec == AccessInit /\ [][AccessNext]_vars

\* The accessors, the reports, the organization details and the connection status
\* over what the upstream can answer them.
ReportNext ==
  \/ AccessNext
  \/ \E s \in Callers :
       \/ GetOrganizationDetails_Call(s)
       \/ GetOrganizationDetails_Return(s)
       \/ GetProfitAndLoss_Call(s)
       \/ GetProfitAndLoss_Return(s)
       \/ GetBalance_Call(s)
       \/ GetBalance_Return(s)
       \/ GetCashFlow_Call(s)
       \/ GetExpenseReport_Call(s)
       \/ RemoteApi_Answer(s, ReportAnswers)
       \/ GetZohoBooksStatus_Select(s)
       \/ GetZohoBooksStatus_Return(s)

ReportSpec == AccessInit /\ [][ReportNext]_vars

\* The vendors tab with its detail modal.
ModalNext ==
  \/ \E v \in Vendors :
       \/ HandleViewVendor_Click(v)
       \/ HandleViewVendor_Resume(v)
       \/ HandleViewVendor_Fail(v)
  \/ OnClose
  \/ HandleEdit
  \/ \E t \in Typed : ChangeField(t)
  \/ Cancel
  \/ HandleSave_Click
  \/ OnUpdate_Resolve
  \/ OnUpdate_Reject
  \/ HandleDelete_Click
  \/ HandleDelete_Resume
  \/ HandleDelete_Fail

ModalSpec == AccessInit /\ [][ModalNext]_vars

\* The promise onUpdate returned settles.
ModalLiveSpec == ModalSpec /\ WF_vars(OnUpdate_Resolve \/ OnUpdate_Reject)

\* getExpenses without filters over every raw record, as the clock advances.
NormalizeNext ==
  \/ Tick
  \/ \E s \in Callers :
       \/ GetExpenses_Call(s) /\ arg'[s] = Filters(<<>>, <<>>, <<>>)
       \/ RemoteApi_Answer(s, ExpenseAnswers)
       \/ GetExpenses_Return(s)

NormalizeSpec == AccessInit /\ [][NormalizeNext]_vars

\* Two sessions fetch the expenses, at the same or at different times, and are
\* answered arrays that carry the same raw records at the same or another position.
RepeatRecords ==
  { RawExpense(a, Undefined, T(<<"P", "a", "i", "d">>), Undefined, eid, id, rich) :
      a \in {Num(1250), T(<<"a", "b", "c">>)},
      eid \in {Undefined, Num(1200)}, id \in IdValues, rich \in BOOLEAN }

RepeatAnswers ==
  { Success(O([expenses |-> List(<<r>>)])) : r \in RepeatRecords }
    \cup { Success(O([expenses |-> List(<<RawBare, r>>)])) : r \in RepeatRecords }

RepeatNext ==
  \/ Tick
  \/ \E s \in Sessions :
       \/ GetExpenses_Call(s) /\ arg'[s] = Filters(<<>>, <<>>, <<>>)
       \/ RemoteApi_Answer(s, RepeatAnswers)
       \/ GetExpenses_Return(s)

RepeatSpec == AccessInit /\ [][RepeatNext]_vars

\* ------------------------------------------------------------------ properties
GVAT == "getValidAccessToken"

\* The select answered with a row that carries an access token.
HasToken(sn) ==
  sn.error = NoMsg /\ sn.data # <<>> /\ sn.data[1].access_token \notin {Null, Empty}

ExpiresAt(sn) == sn.data[1].token_expires_at

\* C1: a getValidAccessToken whose select found an access token with
\* token_expires_at earlier than the time of the check invokes the refresh procedure,
\* exactly once; no getValidAccessToken invokes it twice (no loop, no second attempt
\* after a failure); and once the refresh was invoked the operation either rejects or
\* resolves with the accessToken the procedure answered, never with the stored token.
C1_ExpiredTokenRefreshedOnce ==
  /\ [](\A s \in Sessions :
          op[s] = GVAT =>
            /\ cnt[s].refresh <= 1
            /\ (pc[s] = "done" /\ cnt[s].refresh = 1) =>
                 \/ result[s].kind = "rejected"
                 \/ /\ result[s].kind = "resolved"
                    /\ result[s].val = resp[s].data[1].accessToken
                    /\ result[s].val # SnapToken(snap[s]))
  /\ [][\A s \in Sessions :
          (/\ pc[s] = "gvat_selected" /\ pc'[s] # "gvat_selected"
           /\ HasToken(snap[s]) /\ ExpiresAt(snap[s]) < now)
            => (/\ pc'[s] = "refresh_invoked"
                /\ cnt'[s].refresh = 1
                /\ result'[s] = Pending)]_vars

C1_Witness ==
  \E s \in Sessions :
    /\ op[s] = GVAT /\ pc[s] = "done" /\ cnt[s].refresh = 1
    /\ SnapToken(snap[s]) = InitialToken /\ ExpiresAt(snap[s]) < now
    /\ result[s] = Resolved(MintedTokens[1])

\* C2: a getValidAccessToken whose select found an access token with
\* token_expires_at later than the current time has resolved with exactly the stored
\* access_token and has not invoked the refresh procedure.
C2_FreshTokenReturnedAsStored ==
  \A s \in Sessions :
    (/\ op[s] = GVAT /\ pc[s] # "gvat_selected"
     /\ HasToken(snap[s]) /\ ExpiresAt(snap[s]) > now)
      => (/\ pc[s] = "done"
          /\ result[s] = Resolved(snap[s].data[1].access_token)
          /\ cnt[s].refresh = 0)

C2_Witness ==
  \E s \in Sessions :
    /\ op[s] = GVAT /\ pc[s] = "done"
    /\ HasToken(snap[s]) /\ ExpiresAt(snap[s]) > now
    /\ result[s] = Resolved(InitialToken)
    /\ cnt[s].refresh = 0

\* C3 as stated: every operation that reaches the dispatcher has read the
\* integration record to check the token first, and has refreshed an expired token,
\* before the dispatcher is invoked.
C3_FreshnessCheckedBeforeDispatch ==
  \A s \in Sessions :
    cnt[s].dispatch >= 1 =>
      /\ cnt[s].read >= 1
      /\ (HasToken(snap[s]) /\ ExpiresAt(snap[s]) < now) => cnt[s].refresh >= 1

\* C3, amended: an operation that reaches the dispatcher has invoked 'zoho-api-call'
\* and has issued nothing else: no select of the integration record, no invocation
\* of the refresh procedure, no update; the freshness of the stored token is not
\* looked at by this layer.
C3_DispatchWithoutFreshnessCheck ==
  \A s \in Sessions :
    cnt[s].dispatch >= 1 =>
      /\ cnt[s] = [NoCalls EXCEPT !.dispatch = cnt[s].dispatch]
      /\ snap[s] = NoSnap
      /\ op[s] # GVAT

\* getInvoices has resolved while the stored token was expired, and nothing was
\* read or refreshed.
C3_Witness ==
  \E s \in Sessions :
    /\ op[s] = "getInvoices" /\ pc[s] = "done" /\ result[s].kind = "resolved"
    /\ cnt[s] = One("dispatch")
    /\ record # <<>> /\ record[1].access_token = InitialToken
    /\ record[1].token_expires_at < now

\* C4: a getValidAccessToken whose select failed, found no row, or found a row with
\* a null or empty access_token has rejected with 'No Zoho Books integration found'
\* and has not invoked the refresh procedure, whatever token_expires_at is.
C4_NotFoundRejectsWithoutRefresh ==
  \A s \in Sessions :
    (/\ op[s] = GVAT /\ pc[s] # "gvat_selected"
     /\ \/ snap[s].error # NoMsg
        \/ snap[s].data = <<>>
        \/ snap[s].data[1].access_token \in {Null, Empty})
      => (/\ pc[s] = "done"
          /\ result[s] = Rejected(IntegrationNotFound)
          /\ cnt[s].refresh = 0)

\* The row was read, its access_token is null and its expiry has passed.
C4_Witness ==
  \E s \in Sessions :
    /\ op[s] = GVAT /\ pc[s] = "done"
    /\ snap[s].error = NoMsg /\ snap[s].data # <<>>
    /\ snap[s].data[1].access_token = Null
    /\ ExpiresAt(snap[s]) < now
    /\ result[s] = Rejected(IntegrationNotFound)

\* C5: in every state the integration record, when it exists, has a non-null
\* access_token if is_connected is true.
C5_ConnectedHasToken ==
  record # <<>> => (record[1].is_connected => record[1].access_token # Null)

\* Still connected after a refresh stored a new token and a disconnect failed.
C5_Witness ==
  /\ record # <<>> /\ record[1].is_connected
  /\ record[1].access_token = MintedTokens[1]
  /\ \E s \in Sessions :
       op[s] = "disconnectZohoBooks" /\ pc[s] = "done" /\ result[s].kind = "rejected"

DISC == "disconnectZohoBooks"

\* The step in which the update of disconnectZohoBooks reaches the store.
UpdateLands(s) ==
  Idle(s) /\ op'[s] = DISC /\ pc'[s] = "disc_updated" /\ snap'[s].error = NoMsg

\* C6: disconnectZohoBooks issues exactly one update and no other request; when the
\* update lands, the row (if any) has access_token and refresh_token null,
\* is_connected false and disconnected_at stamped with the current time, its other
\* columns unchanged, whether or not it was disconnected before; and the call
\* resolves whenever the update reported no error.
C6_DisconnectSingleIdempotentUpdate ==
  /\ [](\A s \in Sessions :
          op[s] = DISC =>
            /\ cnt[s] = One("write")
            /\ (pc[s] = "done" /\ snap[s].error = NoMsg) => result[s] = Resolved("success")
            /\ (pc[s] = "done" /\ snap[s].error # NoMsg) => result[s].kind = "rejected")
  /\ [][\A s \in Sessions :
          UpdateLands(s) =>
            IF record = <<>> THEN record' = <<>>
            ELSE /\ record' # <<>>
                 /\ record'[1].access_token = Null
                 /\ record'[1].refresh_token = Null
                 /\ record'[1].is_connected = FALSE
                 /\ record'[1].disconnected_at = <<now>>
                 /\ record'[1].token_expires_at = record[1].token_expires_at
                 /\ record'[1].organization_id = record[1].organization_id
                 /\ record'[1].connected_at = record[1].connected_at]_vars

\* Two disconnects of a row that was already disconnected at time 0 have both
\* resolved, the later one at a later time.
C6_Witness ==
  /\ \A s \in Sessions : op[s] = DISC /\ pc[s] = "done" /\ result[s] = Resolved("success")
  /\ record # <<>>
  /\ record[1].is_connected = FALSE
  /\ record[1].access_token = Null /\ record[1].refresh_token = Null
  /\ record[1].disconnected_at \notin {<<>>, <<0>>}

REFRESH == "refreshZohoBooksToken"

\* A step of the client code of getValidAccessToken or refreshZohoBooksToken: the
\* call up to its first await, the check after the select, the return after the
\* answer of the refresh procedure.
AccessorStep(s) ==
  \/ Idle(s) /\ pc'[s] # pc[s] /\ op'[s] \in {GVAT, REFRESH}
  \/ pc[s] = "gvat_selected" /\ pc'[s] # pc[s]
  \/ pc[s] = "refresh_answered" /\ pc'[s] # pc[s]

\* C7: no step of getValidAccessToken or refreshZohoBooksToken changes the
\* integration record, in any outcome; only disconnectZohoBooks has issued an update;
\* and the record changes only when the update of a disconnect lands or when the
\* remote refresh procedure finishes.
C7_AccessorsNeverWrite ==
  /\ [](\A s \in Sessions : cnt[s].write > 0 => op[s] = DISC)
  /\ [][\A s \in Sessions : AccessorStep(s) => record' = record]_vars
  /\ [][record' # record =>
          \E s \in Sessions :
            \/ UpdateLands(s)
            \/ pc[s] = "refresh_remote" /\ pc'[s] = "refresh_answered"]_vars

\* A getValidAccessToken has resolved through a refresh and has issued no update.
C7_Witness ==
  \E s \in Sessions :
    /\ op[s] = GVAT /\ pc[s] = "done" /\ cnt[s].refresh = 1 /\ cnt[s].write = 0
    /\ result[s] = Resolved(MintedTokens[1])
    /\ record # <<>> /\ record[1].access_token = MintedTokens[1]

\* The invoke of 'zoho-token-refresh' gave no usable token: a transport error, no
\* body, success false, or no accessToken.
NoUsableToken(r) ==
  \/ r.error # <<>>
  \/ r.data = <<>>
  \/ r.data[1].success = FALSE
  \/ r.data[1].accessToken \in {Null, Empty}

\* C8: a refreshZohoBooksToken that has settled (called directly or by
\* getValidAccessToken) has rejected if the invoke reported a transport error, or
\* success false, or no accessToken (even with success true), and otherwise has
\* resolved with the accessToken of the answer.
C8_RefreshRejectsWithoutToken ==
  \A s \in Sessions :
    (pc[s] = "done" /\ cnt[s].refresh = 1) =>
      IF NoUsableToken(resp[s])
        THEN result[s].kind = "rejected"
        ELSE result[s] = Resolved(resp[s].data[1].accessToken)

\* success true without an accessToken: rejected with 'Token refresh failed'.
C8_Witness ==
  \E s \in Sessions :
    /\ op[s] = REFRESH /\ pc[s] = "done"
    /\ resp[s].error = <<>> /\ resp[s].data # <<>>
    /\ resp[s].data[1].success /\ resp[s].data[1].accessToken = Null
    /\ result[s] = Rejected(TokenRefreshFailed)

\* C9: nothing guards a token read or refresh against a disconnect from another
\* session: a getValidAccessToken, or refresh, during which a disconnect landed
\* settles exactly as without it: with the access_token of its earlier select when
\* that was found and no refresh was made, and with the accessToken the refresh
\* procedure answered when it answered one.
C9_DisconnectDoesNotGuardTokenRead ==
  \A s \in Sessions :
    (pc[s] = "done" /\ op[s] \in {GVAT, REFRESH} /\ discSince[s]) =>
      /\ (op[s] = GVAT /\ HasToken(snap[s]) /\ cnt[s].refresh = 0)
           => result[s] = Resolved(snap[s].data[1].access_token)
      /\ (cnt[s].refresh = 1 /\ ~NoUsableToken(resp[s]))
           => result[s] = Resolved(resp[s].data[1].accessToken)

\* A disconnect from tabB has resolved while tabA's getValidAccessToken was in
\* flight; tabA was still handed a token, and the refresh that finished after the
\* disconnect left an access_token in the disconnected row.
C9_Witness ==
  /\ op["tabB"] = DISC /\ pc["tabB"] = "done" /\ result["tabB"] = Resolved("success")
  /\ op["tabA"] = GVAT /\ pc["tabA"] = "done" /\ discSince["tabA"]
  /\ result["tabA"] = Resolved(MintedTokens[1])
  /\ record # <<>>
  /\ record[1].is_connected = FALSE /\ record[1].disconnected_at # <<>>
  /\ record[1].refresh_token = Null
  /\ record[1].access_token = MintedTokens[1]

\* The dispatcher has settled on an envelope whose success is not true.
ApiFailure(s) ==
  /\ pc[s] = "done" /\ cnt[s].dispatch = 1
  /\ resp[s].error = <<>> /\ resp[s].data # <<>>
  /\ resp[s].data[1].success # <<TRUE>>

MappedStatuses == {<<400>>, <<401>>, <<403>>, <<404>>}

\* What the four mapped statuses give.
MappedMessageOk(st, m) ==
  /\ st = <<403>> => Contains(m, W(<<"active", "transactions">>))
  /\ st = <<404>> => Contains(m, W(<<"already", "been", "deleted">>))
  /\ st = <<401>> => Contains(m, W(<<"reconnect">>))
  /\ st = <<400>> => m = W(<<"Invalid", "request", ".", "Please", "check", "the",
                             "item", "details", ".">>)

\* C10 as stated: on an envelope with success false the dispatcher rejects, with
\* the message of the status for 403, 404, 401 and 400, and with the raw upstream
\* error string for any other or missing status.
C10_UnmappedStatusGivesRawError ==
  \A s \in Sessions :
    ApiFailure(s) =>
      LET e == resp[s].data[1] IN
        /\ result[s].kind = "rejected"
        /\ MappedMessageOk(e.status, result[s].msg)
        /\ e.status \notin MappedStatuses => result[s].msg = e.error

\* The message expected for an unmapped status, per error string of the envelope.
ExpectedUnmapped(raw) ==
  CASE raw = NoMsg -> W(<<"API", "call", "failed">>)
    [] raw = ErrThrottled -> W(<<"Throttled">>)
    [] raw = ErrQuota -> W(<<"Quota">>)
    [] raw = ErrNumberMessage -> W(<<"42">>)
    [] raw = ErrArrayMessage -> NoMsg
    [] OTHER -> raw

\* C10, amended: as stated for 403, 404, 401 and 400; for any other or missing
\* status the message is the raw upstream error string, except that an envelope
\* without an error string gives 'API call failed' and an error string that is a
\* JSON object with a non-empty message gives that message.
C10_StatusDecidesMessage ==
  \A s \in Sessions :
    ApiFailure(s) =>
      LET e == resp[s].data[1] IN
        /\ result[s].kind = "rejected"
        /\ MappedMessageOk(e.status, result[s].msg)
        /\ e.status \notin MappedStatuses => result[s].msg = ExpectedUnmapped(e.error)

\* Status 429 with the error string {"message":"Throttled"}: rejected with Throttled.
C10_Witness ==
  \E s \in Sessions :
    /\ ApiFailure(s)
    /\ resp[s].data[1].status = <<429>>
    /\ resp[s].data[1].error = ErrThrottled
    /\ result[s] = Rejected(W(<<"Throttled">>))

\* The message carried by an error string that is a serialized structured error,
\* as a text; <<>> when the string carries none.
EmbeddedMessage(raw) ==
  CASE raw = ErrThrottled -> <<W(<<"Throttled">>)>>
    [] raw = ErrQuota -> <<W(<<"Quota">>)>>
    [] raw = ErrNumberMessage -> <<W(<<"42">>)>>
    [] raw = ErrArrayMessage -> <<NoMsg>>
    [] OTHER -> <<>>

\* Error strings that are not JSON, and JSON texts carrying no message.
WithoutMessage ==
  {ErrPlain, ErrCutOff, ErrCodeOnly, ErrEmptyMessage, ErrJsonNull, ErrJsonNumber}

\* C11 as stated: on an envelope with success false, an error string that is a
\* serialized structured error carrying a message gives a rejection with that
\* embedded message, and an error string that cannot be parsed gives a rejection
\* with the raw string; the operation never fails in another way.
C11_EmbeddedMessageAlwaysPreferred ==
  \A s \in Sessions :
    ApiFailure(s) =>
      LET e == resp[s].data[1] IN
        /\ result[s].kind = "rejected"
        /\ EmbeddedMessage(e.error) # <<>> => result[s].msg = EmbeddedMessage(e.error)[1]
        /\ e.error \in WithoutMessage => result[s].msg = e.error

\* C11, amended: as stated when the status is none of 400, 401, 403 and 404; for
\* those four statuses the rejection carries the fixed message of the status
\* whatever the error string is, so an embedded message is not preferred there.
C11_EmbeddedMessagePreferredWhenUnmapped ==
  \A s \in Sessions :
    ApiFailure(s) =>
      LET e == resp[s].data[1] IN
        /\ result[s].kind = "rejected"
        /\ IF e.status \in MappedStatuses
             THEN result[s].msg \in
                    {PermissionDenied, ItemNotFound, InvalidRequest, AuthorizationFailed}
             ELSE /\ EmbeddedMessage(e.error) # <<>> =>
                       result[s].msg = EmbeddedMessage(e.error)[1]
                  /\ e.error \in WithoutMessage => result[s].msg = e.error

\* The error string {"code":57,"message":"Quota"} with status 500: rejected with
\* Quota.
C11_Witness ==
  \E s \in Sessions :
    /\ ApiFailure(s)
    /\ resp[s].data[1].status = <<500>>
    /\ resp[s].data[1].error = ErrQuota
    /\ result[s] = Rejected(W(<<"Quota">>))

\* The invocation of 'zoho-api-call' itself failed and the dispatcher has settled.
TransportFailure(s) ==
  /\ pc[s] = "done" /\ cnt[s].dispatch >= 1
  /\ resp[s].error # <<>>

\* C12: when the invocation fails, the dispatcher rejects with the transport
\* error's message as it is, or with 'Unknown error' when it has none; the message
\* is neither parsed nor replaced by a message of the status mapping.
C12_TransportErrorRejectsWithItsMessage ==
  \A s \in Sessions :
    TransportFailure(s) =>
      LET m == resp[s].error[1].message IN
        /\ result[s].kind = "rejected"
        /\ result[s].msg = (IF m = NoMsg THEN W(<<"Unknown", "error">>) ELSE m)
        /\ result[s].msg \notin
             {PermissionDenied, ItemNotFound, InvalidRequest, AuthorizationFailed,
              W(<<"API", "call", "failed">>)}

\* A transport error whose message is the JSON text {"message":"Throttled"}: the
\* rejection carries that text unparsed.
C12_Witness ==
  \E s \in Sessions :
    /\ TransportFailure(s)
    /\ resp[s].error[1].message = ErrThrottled
    /\ result[s] = Rejected(ErrThrottled)

\* The dispatcher has settled.
Dispatched(s) == pc[s] = "done" /\ cnt[s].dispatch >= 1

\* The invocation had no transport error and answered an envelope with success true.
Succeeded(r) == r.error = <<>> /\ r.data # <<>> /\ r.data[1].success = <<TRUE>>

\* C13: the dispatcher resolves exactly when the invocation had no transport error
\* and the envelope's success is true, and then with the envelope's data as it
\* is; in every other case it rejects with an error whose message is not empty.
C13_ResolvesIffSuccessElseNonEmptyMessage ==
  \A s \in Sessions :
    Dispatched(s) =>
      /\ result[s].kind = "resolved" <=> Succeeded(resp[s])
      /\ Succeeded(resp[s]) => result[s].val = resp[s].data[1].data
      /\ ~Succeeded(resp[s]) => result[s].kind = "rejected" /\ result[s].msg # NoMsg

\* C14: every call of the dispatcher invokes 'zoho-api-call' once and never the
\* refresh procedure: once the invocation is answered, the next step of the call
\* settles it with no further request, whatever the answer was.
C14_DispatcherNeverRetries ==
  /\ [](\A s \in Sessions :
          pc[s] \in {"api_invoked", "api_answered"} \/ Dispatched(s) =>
            /\ cnt[s].refresh = 0
            /\ op[s] \in DirectCallers => cnt[s].dispatch = 1)
  /\ [][\A s \in Sessions :
          pc[s] = "api_answered" /\ pc'[s] # "api_answered" =>
            /\ pc'[s] = "done"
            /\ result'[s].kind # "pending"
            /\ cnt'[s] = cnt[s]]_vars

\* An envelope with status 401 has been answered and the call has rejected after
\* its one invocation.
C14_Witness ==
  \E s \in Sessions :
    /\ ApiFailure(s)
    /\ resp[s].data[1].status = <<401>>
    /\ result[s].kind = "rejected"
    /\ cnt[s] = One("dispatch")

\* C15: the body createVendor and createCustomer send to POST /contacts carries
\* contact_type, 'vendor' for createVendor and 'customer' for createCustomer,
\* whatever the caller's payload holds.
C15_CreateContactStampsType ==
  \A s \in Sessions :
    op[s] \in {"createVendor", "createCustomer"} /\ cnt[s].dispatch >= 1 =>
      /\ req[s].method = "POST"
      /\ req[s].endpoint = <<S("/contacts")>>
      /\ req[s].body # <<>>
      /\ "contact_type" \in DOMAIN req[s].body[1]
      /\ req[s].body[1].contact_type =
           S(IF op[s] = "createVendor" THEN "vendor" ELSE "customer")

\* The accounts of the chart the fetch of createExpense was answered with; none
\* when the answer has no array of accounts.
FetchedChart(s) ==
  LET data == resp[s].data[1].data
  IN IF data[1] = "obj" /\ "chartofaccounts" \in DOMAIN data[2]
        /\ data[2].chartofaccounts[1] = "list"
       THEN data[2].chartofaccounts[2] ELSE <<>>

\* The positions of the accounts of type expense in a chart.
ExpensePositions(chart) ==
  {i \in DOMAIN chart : chart[i][2].account_type = S("expense")}

\* createExpense was called without an account_id.
WithoutAccount(s) ==
  /\ op[s] = "createExpense"
  /\ cnt[s].dispatch >= 1
  /\ "account_id" \notin DOMAIN arg[s] \/ arg[s].account_id = S(Empty)

\* C16: createExpense without an account_id first fetches GET /chartofaccounts;
\* when the fetch succeeded and the chart has no account of type expense it rejects
\* with the no-expense-account error without a POST; otherwise the POST it sends
\* carries the account_id of the first account of type expense in the chart's order.
C16_FirstExpenseAccountChosen ==
  \A s \in Sessions :
    WithoutAccount(s) =>
      /\ cnt[s].dispatch = 1 =>
           req[s].endpoint = <<S("/chartofaccounts")>> /\ req[s].method = "GET"
      /\ (/\ cnt[s].dispatch = 1 /\ pc[s] = "done" /\ Succeeded(resp[s])) =>
           /\ ExpensePositions(FetchedChart(s)) = {}
           /\ result[s] = Rejected(
                W(<<"No", "expense", "accounts", "found", "in", "your", "Zoho", "Books",
                    "chart", "of", "accounts", ".", "Please", "create", "an", "expense",
                    "account", "first", ".">>))
      /\ (cnt[s].dispatch = 2 /\ pc[s] = "api_invoked") =>
           LET chart == FetchedChart(s)
               at == ExpensePositions(chart)
           IN /\ at # {}
              /\ req[s].method = "POST" /\ req[s].endpoint = <<S("/expenses")>>
              /\ req[s].body[1].account_id =
                   chart[CHOOSE i \in at : \A j \in at : i <= j][2].account_id

\* The chart's first account is of another type and its second of type expense:
\* the POST carries the second account's id.
C16_Witness ==
  \E s \in Sessions :
    /\ WithoutAccount(s)
    /\ cnt[s].dispatch = 2 /\ pc[s] = "api_invoked"
    /\ Len(FetchedChart(s)) = 2
    /\ ExpensePositions(FetchedChart(s)) = {2}
    /\ req[s].body[1].account_id = S("a2")

\* C17: the body of every POST /expenses createExpense sends carries the caller's
\* total under the key amount and has no key total.
C17_TotalSentAsAmount ==
  \A s \in Sessions :
    op[s] = "createExpense" /\ req[s].method = "POST" =>
      /\ req[s].endpoint = <<S("/expenses")>>
      /\ req[s].body # <<>>
      /\ "amount" \in DOMAIN req[s].body[1]
      /\ req[s].body[1].amount = arg[s].total
      /\ "total" \notin DOMAIN req[s].body[1]

\* A createExpense with total 25 and its own account_id has resolved.
C17_Witness ==
  \E s \in Sessions :
    /\ op[s] = "createExpense" /\ pc[s] = "done" /\ result[s].kind = "resolved"
    /\ arg[s].total = N("25")
    /\ req[s].body[1].amount = N("25")
    /\ req[s].body[1].account_id = S("acc9")

ListOperations == {"getInvoices", "getCustomers", "getVendors", "getExpenses"}

\* The filter names that occur as a parameter name in an endpoint.
Named(endpoint) ==
  {f \in {"limit", "offset", "status"} : \E i \in DOMAIN endpoint : endpoint[i] = S(f)}

\* C18: in the endpoint a list operation dispatches, a limit, offset or status the
\* caller did not supply is not a parameter, no parameter has an empty, null or
\* undefined value, and getInvoices and getExpenses called with no filter dispatch
\* the bare path with no '?'.
C18_AbsentFiltersOmitted ==
  \A s \in Sessions :
    op[s] \in ListOperations /\ cnt[s].dispatch >= 1 =>
      LET e == req[s].endpoint IN
        /\ \A f \in Named(e) : arg[s][f] # <<>>
        /\ \A i \in DOMAIN e :
             e[i] = P("=") =>
               /\ i < Len(e)
               /\ e[i + 1] \notin {S(Empty), S("null"), S("undefined"), L("null"), Undefined}
        /\ (/\ op[s] \in {"getInvoices", "getExpenses"}
            /\ \A f \in {"limit", "offset", "status"} : arg[s][f] = <<>>) =>
             e = <<S(IF op[s] = "getInvoices" THEN "/invoices" ELSE "/expenses")>>

\* getExpenses called with a status only: the endpoint is /expenses?status=paid.
C18_Witness ==
  \E s \in Sessions :
    /\ op[s] = "getExpenses" /\ pc[s] = "done"
    /\ arg[s] = [status |-> <<S("paid")>>, limit |-> <<>>, offset |-> <<>>]
    /\ req[s].endpoint = <<S("/expenses"), P("?"), S("status"), P("="), S("paid")>>

\* C19: getCustomers and getVendors dispatch GET on /contacts with a query string
\* that ends in contact_type=customer, respectively contact_type=vendor, whatever
\* the filters are; the rest of the endpoint names neither the discriminator nor a
\* contact type.
C19_ContactTypeAlwaysSent ==
  \A s \in Sessions :
    op[s] \in {"getCustomers", "getVendors"} /\ cnt[s].dispatch >= 1 =>
      LET e == req[s].endpoint
          n == Len(e)
      IN /\ req[s].method = "GET"
         /\ n >= 5 /\ e[1] = S("/contacts") /\ e[2] = P("?")
         /\ SubSeq(e, n - 2, n) =
              <<S("contact_type"), P("="),
                S(IF op[s] = "getCustomers" THEN "customer" ELSE "vendor")>>
         /\ \A i \in 1..(n - 3) :
              e[i] \notin {S("contact_type"), S("customer"), S("vendor")}

\* getVendors called with every filter has dispatched
\* /contacts?limit=10&offset=20&status=active&contact_type=vendor.
C19_Witness ==
  \E s \in Sessions :
    /\ op[s] = "getVendors" /\ pc[s] = "done" /\ result[s].kind = "resolved"
    /\ req[s].endpoint =
         <<S("/contacts"), P("?"), S("limit"), P("="), N("10"), P("&"),
           S("offset"), P("="), N("20"), P("&"), S("status"), P("="), S("active"),
           P("&"), S("contact_type"), P("="), S("vendor")>>

\* The normalized records of a resolved getExpenses.
NormalizedExpenses(s) == result[s].val[2].expenses[2]

\* C20: every record getExpenses returns has an amount that is a number, not NaN
\* and not negative, a status without an upper-case letter, and an expense_id that
\* is a non-empty string.
C20_NormalizedRecordWellFormed ==
  \A s \in Sessions :
    op[s] = "getExpenses" /\ pc[s] = "done" /\ result[s].kind = "resolved" =>
      \A i \in DOMAIN NormalizedExpenses(s) :
        LET n == NormalizedExpenses(s)[i][2] IN
          /\ n.amount[1] = "number" /\ n.amount[2] >= 0
          /\ n.status[1] = "text"
          /\ \A j \in DOMAIN n.status[2] :
               n.status[2][j] \notin {UpperCase[k] : k \in DOMAIN UpperCase}
          /\ n.expense_id[1] = "text" /\ n.expense_id[2] # <<>>

\* The raw records of the array a successful envelope carries.
UpstreamExpenses(s) == RawExpenses(ApiOutcome(resp[s]).val)

\* C21: whenever the dispatcher resolved, getExpenses resolves; its expenses are as
\* many as the upstream array's records (none when expenses is missing or not an
\* array), and the i-th is the normalization of the i-th raw record.
C21_NormalizationTotalAndOrdered ==
  \A s \in Sessions :
    /\ op[s] = "getExpenses" /\ pc[s] = "done"
    /\ ApiOutcome(resp[s]).kind = "resolved"
    => /\ result[s].kind = "resolved"
       /\ Len(NormalizedExpenses(s)) = Len(UpstreamExpenses(s))
       /\ \A i \in DOMAIN UpstreamExpenses(s) :
            NormalizedExpenses(s)[i] = Normalize(UpstreamExpenses(s)[i], i - 1, now)

\* Session s has a resolved getExpenses.
Fetched(s) == op[s] = "getExpenses" /\ pc[s] = "done" /\ result[s].kind = "resolved"

\* The raw record carries an identifier of its own.
HasOwnId(raw) == TruthyValue(Get(raw, "expense_id")) \/ TruthyValue(Get(raw, "id"))

\* The raw record carries a date that is not blank.
HasOwnDate(raw) ==
  \/ TruthyValue(Get(raw, "expense_date")) /\ Trim(StringOf(Get(raw, "expense_date"))) # <<>>
  \/ TruthyValue(Get(raw, "date")) /\ Trim(StringOf(Get(raw, "date"))) # <<>>

\* The members of a normalized record other than the listed keys.
Without(n, keys) == [k \in DOMAIN n \ keys |-> n[k]]

\* The pairs of positions at which two fetches were handed the same raw record.
SameRaw(s1, s2) ==
  { p \in (DOMAIN UpstreamExpenses(s1)) \X (DOMAIN UpstreamExpenses(s2)) :
      UpstreamExpenses(s1)[p[1]] = UpstreamExpenses(s2)[p[2]] }

\* C22 as stated: two normalizations of the same raw record differ at most in
\* expense_id, and in expense_id only when it was synthesized; amount, status and
\* expense_date are the same.
C22_OnlySynthesizedIdDiffers ==
  \A s1, s2 \in Sessions :
    Fetched(s1) /\ Fetched(s2) =>
      \A p \in SameRaw(s1, s2) :
        LET raw == UpstreamExpenses(s1)[p[1]]
            n1 == NormalizedExpenses(s1)[p[1]][2]
            n2 == NormalizedExpenses(s2)[p[2]][2]
        IN /\ Without(n1, {"expense_id"}) = Without(n2, {"expense_id"})
           /\ HasOwnId(raw) => n1.expense_id = n2.expense_id

\* C22, amended: two normalizations of the same raw record differ at most in
\* expense_id and expense_date; in expense_id only when the record has no
\* identifier of its own, in expense_date only when it has no date of its own;
\* amount and status are the same.
C22_OnlyFallbacksDiffer ==
  \A s1, s2 \in Sessions :
    Fetched(s1) /\ Fetched(s2) =>
      \A p \in SameRaw(s1, s2) :
        LET raw == UpstreamExpenses(s1)[p[1]]
            n1 == NormalizedExpenses(s1)[p[1]][2]
            n2 == NormalizedExpenses(s2)[p[2]][2]
        IN /\ Without(n1, {"expense_id", "expense_date"})
                = Without(n2, {"expense_id", "expense_date"})
           /\ n1.amount = n2.amount /\ n1.status = n2.status
           /\ HasOwnId(raw) => n1.expense_id = n2.expense_id
           /\ HasOwnDate(raw) => n1.expense_date = n2.expense_date

\* The same raw record, with no identifier and no date of its own, was normalized
\* at two positions and two times: the identifiers and the dates differ, the
\* amounts and statuses do not.
C22_Witness ==
  \E s1, s2 \in Sessions :
    /\ Fetched(s1) /\ Fetched(s2)
    /\ \E p \in SameRaw(s1, s2) :
         LET raw == UpstreamExpenses(s1)[p[1]]
             n1 == NormalizedExpenses(s1)[p[1]][2]
             n2 == NormalizedExpenses(s2)[p[2]][2]
         IN /\ p[1] # p[2]
            /\ ~HasOwnId(raw) /\ ~HasOwnDate(raw)
            /\ n1.expense_id # n2.expense_id
            /\ n1.expense_date # n2.expense_date
            /\ n1.amount = Num(1250) /\ n2.amount = Num(1250)

\* The positions of a fetch whose raw record has no identifier of its own.
SynthesizedPositions(s) ==
  { i \in DOMAIN UpstreamExpenses(s) : ~HasOwnId(UpstreamExpenses(s)[i]) }

\* C23: the expense_id of a normalized record is the string form of the raw
\* record's expense_id when that is truthy, else of its id when that is truthy,
\* else the placeholder made of the record's position and the current time; the
\* placeholders within one result are pairwise distinct.
C23_IdentifierChain ==
  \A s \in Sessions :
    Fetched(s) =>
      /\ \A i \in DOMAIN UpstreamExpenses(s) :
           LET raw == UpstreamExpenses(s)[i]
               id == NormalizedExpenses(s)[i][2].expense_id
           IN IF TruthyValue(Get(raw, "expense_id"))
                THEN id = T(StringOf(Get(raw, "expense_id")))
              ELSE IF TruthyValue(Get(raw, "id"))
                THEN id = T(StringOf(Get(raw, "id")))
              ELSE \E t \in 0..now :
                     id = T(<<"e", "x", "p", "e", "n", "s", "e", "-">> \o IntText(i - 1)
                              \o <<"-">> \o IntText(t))
      /\ \A i, j \in SynthesizedPositions(s) :
           i # j => NormalizedExpenses(s)[i][2].expense_id
                      # NormalizedExpenses(s)[j][2].expense_id

\* One result holds two placeholders, expense-0-1 and expense-1-1, made at time 1.
C23_Witness ==
  \E s \in Sessions :
    /\ Fetched(s)
    /\ SynthesizedPositions(s) = {1, 2}
    /\ NormalizedExpenses(s)[1][2].expense_id = T(<<"e", "x", "p", "e", "n", "s", "e", "-", "0", "-", "1">>)
    /\ NormalizedExpenses(s)[2][2].expense_id = T(<<"e", "x", "p", "e", "n", "s", "e", "-", "1", "-", "1">>)

\* C24: getExpenses answered with the array
\* [{amount: "12.50", vendor: "Acme", date: "2024-01-05"}] resolves with exactly one
\* record, of amount 12.5, vendor_name "Acme", expense_date "2024-01-05" and status
\* "nonbillable".
C24_ScenarioRecord ==
  \A s \in Sessions :
    /\ op[s] = "getExpenses" /\ pc[s] = "done"
    /\ ApiOutcome(resp[s]).kind = "resolved"
    /\ UpstreamExpenses(s) = <<RawScenario>>
    => /\ result[s].kind = "resolved"
       /\ Len(NormalizedExpenses(s)) = 1
       /\ LET n == NormalizedExpenses(s)[1][2] IN
            /\ n.amount = Num(1250)
            /\ n.vendor_name = T(<<"A", "c", "m", "e">>)
            /\ n.expense_date = T(<<"2", "0", "2", "4", "-", "0", "1", "-", "0", "5">>)
            /\ n.status = T(<<"n", "o", "n", "b", "i", "l", "l", "a", "b", "l", "e">>)

\* getExpenses has returned after it was answered with that array.
C24_Witness ==
  \E s \in Sessions :
    /\ Fetched(s)
    /\ UpstreamExpenses(s) = <<RawScenario>>
    /\ Len(NormalizedExpenses(s)) = 1

\* parseFloat of the string form of v, 0 when that is NaN.
ParsedOrZero(v) == IF ParseFloat(StringOf(v)) = NaN THEN Num(0) ELSE ParseFloat(StringOf(v))

\* The amount the first matching rule gives: the raw amount when it is a number
\* above zero, else the raw total when it is a number above zero, else the parse of
\* the amount when it is truthy, else the parse of the total when it is truthy,
\* else 0.
FirstMatchAmount(raw) ==
  LET a == Get(raw, "amount")
      tt == Get(raw, "total")
  IN CASE a[1] = "number" /\ a[2] > 0 -> a
       [] ~(a[1] = "number" /\ a[2] > 0) /\ (tt[1] = "number" /\ tt[2] > 0) -> tt
       [] OTHER -> IF TruthyValue(a) THEN ParsedOrZero(a)
                   ELSE IF TruthyValue(tt) THEN ParsedOrZero(tt)
                   ELSE Num(0)

\* C28: the amount of every normalized record is the one the first matching rule
\* gives, and it is a number that is neither NaN nor negative, whatever the raw
\* amount and total are.
C28_AmountByFirstMatch ==
  \A s \in Sessions :
    Fetched(s) =>
      \A i \in DOMAIN UpstreamExpenses(s) :
        LET n == NormalizedExpenses(s)[i][2] IN
          /\ n.amount = FirstMatchAmount(UpstreamExpenses(s)[i])
          /\ n.amount[1] = "number"
          /\ n.amount[2] >= 0

\* The operation of session s is over and the dispatcher rejected its last call.
DispatchFailed(s) ==
  pc[s] = "done" /\ cnt[s].dispatch >= 1 /\ ApiOutcome(resp[s]).kind = "rejected"

\* The operation of session s is over and its select of the record failed.
LookupFailed(s) == pc[s] = "done" /\ cnt[s].read >= 1 /\ snap[s].error # NoMsg

\* C25: whenever the dispatcher rejects, getProfitAndLoss resolves with
\* {total_income: 0, total_expenses: 0, net_profit: 0} and getBalance resolves with
\* {total_assets: 0, total_liabilities: 0}.
C25_ReportFailureGivesZeroes ==
  \A s \in Sessions :
    DispatchFailed(s) =>
      /\ op[s] = "getProfitAndLoss" => result[s] = Resolved(ZeroProfitAndLoss)
      /\ op[s] = "getBalance" => result[s] = Resolved(ZeroBalance)

Reports == {"getProfitAndLoss", "getBalance"}

\* C26 as stated: an operation other than the two reports that met a failure of the
\* dispatcher or of the record lookup rejects.
C26_NoOtherOperationSwallows ==
  \A s \in Sessions :
    op[s] \notin Reports /\ (DispatchFailed(s) \/ LookupFailed(s)) =>
      result[s].kind = "rejected"

\* C26, amended: getOrganizationDetails resolves with the default currency when
\* the dispatcher rejects, and getZohoBooksStatus resolves as not connected when
\* the lookup fails; every other operation besides the two reports rejects, with
\* the dispatcher's error.
C26_OnlyDetailsAndStatusSwallow ==
  \A s \in Sessions :
    op[s] \notin Reports /\ (DispatchFailed(s) \/ LookupFailed(s)) =>
      CASE op[s] = "getOrganizationDetails" -> result[s] = Resolved(DefaultCurrency)
        [] op[s] = "getZohoBooksStatus" -> result[s] = Resolved("not_connected")
        [] OTHER -> result[s] = ApiOutcome(resp[s])

\* getCashFlow has rejected with the message of status 404, and it was not the
\* only operation to meet a failure.
C26_Witness ==
  \E s \in Sessions :
    /\ op[s] = "getCashFlow" /\ DispatchFailed(s)
    /\ result[s] = Rejected(ItemNotFound)

GetChart == [endpoint |-> <<S("/chartofaccounts")>>, method |-> "GET", body |-> <<>>]

\* The request of session s is a POST on /expenses.
PostsExpense(r) == r.method = "POST" /\ r.endpoint = <<S("/expenses")>>

\* What holds of a createExpense in every state: called with an account_id it has
\* issued one invocation, the POST; called without, its first invocation is the
\* GET of the chart and its second, if any, the POST.
CreateExpenseRequests(s) ==
  op[s] = "createExpense" =>
    /\ cnt[s].dispatch \in 1..2
    /\ ~WithoutAccount(s) => cnt[s].dispatch = 1 /\ PostsExpense(req[s])
    /\ WithoutAccount(s) /\ cnt[s].dispatch = 1 => req[s] = GetChart
    /\ WithoutAccount(s) /\ cnt[s].dispatch = 2 => PostsExpense(req[s])

\* What holds of every step in which a createExpense under way issues a further
\* invocation: none is outstanding, the one before was the GET of the chart, it
\* succeeded with at least one account of type expense, and the new one is the POST.
CreateExpenseNextRequest(s) ==
  op[s] = "createExpense" /\ ~Idle(s) /\ (req'[s] # req[s] \/ cnt'[s] # cnt[s]) =>
    /\ pc[s] = "api_answered"
    /\ WithoutAccount(s)
    /\ req[s] = GetChart /\ cnt[s].dispatch = 1
    /\ Succeeded(resp[s])
    /\ ExpensePositions(FetchedChart(s)) # {}
    /\ PostsExpense(req'[s]) /\ cnt'[s].dispatch = 2
    /\ pc'[s] = "api_invoked"

\* C27: the invocations of one createExpense are sequential, at most one being
\* outstanding; without an account_id the POST is issued only after the GET of
\* /chartofaccounts returned, and not when it failed or gave no expense account;
\* with an account_id the POST is the only invocation.
C27_CreateExpenseSequential ==
  /\ [](\A s \in Sessions : CreateExpenseRequests(s))
  /\ [][\A s \in Sessions : CreateExpenseNextRequest(s)]_vars

\* A createExpense without an account_id has resolved after its two invocations.
C27_Witness ==
  \E s \in Sessions :
    /\ WithoutAccount(s) /\ pc[s] = "done" /\ result[s].kind = "resolved"
    /\ cnt[s].dispatch = 2 /\ PostsExpense(req[s])

\* C29: whenever onUpdate(id, data) has been called, data was initialised by Edit
\* from the record whose id is id.
C29_SavedDataBelongsToRecord ==
  update # NoUpdate => update[1].from = <<update[1].id>>

\* The steps that settle the promise of onUpdate.
UpdateResolves == update # NoUpdate /\ update[1].state = "pending"
                    /\ update'[1].state = "resolved"
UpdateRejects == update # NoUpdate /\ update[1].state = "pending"
                   /\ update'[1].state = "rejected"

\* C30: a save under way ends with isSaving false again; edit mode always has its
\* data; edit mode is left, and the data dropped, only by a step in which onUpdate
\* resolves or by Cancel; a step in which onUpdate rejects leaves edit mode and
\* the data as they are, clears isSaving and fulfils the promise of handleSave.
C30_SaveSettlesAndKeepsEditMode ==
  /\ isSaving ~> ~isSaving
  /\ [](isEditing => editData # NoData)
  /\ [][(isEditing /\ ~isEditing') \/ (editData # NoData /\ editData' = NoData)
          => UpdateResolves \/ Cancel]_vars
  /\ [][UpdateRejects =>
          /\ isEditing' = isEditing /\ editData' = editData
          /\ ~isSaving' /\ saved' = "fulfilled"]_vars

\* onUpdate rejected: the modal is still in edit mode with what the user typed,
\* and no save is under way.
C30_Witness ==
  /\ update # NoUpdate /\ update[1].state = "rejected"
  /\ isEditing /\ editData = <<[contact_name |-> "Zed"]>> /\ update[1].data = editData[1]
  /\ ~isSaving /\ saved = "fulfilled"

====
